---------------------------- MODULE Spec2Model ----------------------------
(***************************************************************************)
(* A model of CNCTools' board_cutout.py: the outline extractor             *)
(* (find_board_outline), the polygon offsetter (BoardGeometry.offset),     *)
(* the corner-path extractor (BoardGeometry.extract_corner), the           *)
(* multi-pass toolpath sequencer (BoardGeometry.write_gcode) and the       *)
(* script's main block that chains them.                                   *)
(*                                                                         *)
(* Units.  Depth arguments (z_cut, tab_depth, depth, pass_z, safe_z) are   *)
(* given on the command line as decimal text; the model draws them as      *)
(* whole thousandths of an inch, converts them to IEEE doubles as float()  *)
(* does, adds and compares them as doubles, and formats them with five     *)
(* decimals as the f-strings do, so an emitted depth is a whole number of  *)
(* 1e-5 in.  Plane coordinates are whole numbers of grid steps of 5e-6 in: *)
(* the tolerance 1e-5 of the loop-closure test is two steps, and the       *)
(* tolerance 1e-8 of the offsetter and corner extractor is below one step. *)
(***************************************************************************)
EXTENDS Integers, Sequences, FiniteSets, TLC

Abs(a) == IF a < 0 THEN -a ELSE a
Min2(a, b) == IF a <= b THEN a ELSE b
Max2(a, b) == IF a >= b THEN a ELSE b

(***************************************************************************)
(* IEEE-754 binary64 arithmetic, as Python floats carry it.  A double is   *)
(* zero or sgn * m * 2^exp, with m a significand of Prec bits, written     *)
(* most significant bit first with a leading 1.  Subnormals, infinities    *)
(* and NaNs are outside the ranges the model draws.                        *)
(***************************************************************************)
Prec == 53

Zeros(n) == [i \in 1..n |-> 0]

StripZeros(b) ==
    LET ones == {i \in 1..Len(b) : b[i] = 1}
    IN  IF ones = {} THEN <<>>
        ELSE SubSeq(b, CHOOSE i \in ones : \A j \in ones : i <= j, Len(b))

PadLeft(b, n) == IF Len(b) >= n THEN b ELSE Zeros(n - Len(b)) \o b

RECURSIVE NatOfBits(_)
NatOfBits(b) ==
    IF b = <<>> THEN 0
    ELSE 2 * NatOfBits(SubSeq(b, 1, Len(b) - 1)) + b[Len(b)]

RECURSIVE BitsOfNat(_)
BitsOfNat(n) == IF n = 0 THEN <<>> ELSE BitsOfNat(n \div 2) \o <<n % 2>>

\* Magnitudes are added, subtracted and multiplied limb by limb, a limb
\* being LimbBits bits, so that every intermediate value fits a machine int.
LimbBits == 15
LimbBase == 2 ^ LimbBits
Limbs(n) == (n + LimbBits - 1) \div LimbBits
LimbOf(a, j) == NatOfBits(SubSeq(a, (j - 1) * LimbBits + 1, j * LimbBits))
BitsOfLimb(v) == [i \in 1..LimbBits |-> (v \div (2 ^ (LimbBits - i))) % 2]
LastBits(b, n) == SubSeq(b, Len(b) - n + 1, Len(b))

\* The top j limbs of a plus those of b plus carry: 1 + j * LimbBits bits.
RECURSIVE AddLimbs(_, _, _, _)
AddLimbs(a, b, j, carry) ==
    IF j = 0 THEN <<carry>>
    ELSE LET s == LimbOf(a, j) + LimbOf(b, j) + carry
         IN  AddLimbs(a, b, j - 1, s \div LimbBase) \o BitsOfLimb(s % LimbBase)

\* a + b on magnitudes of equal length n; the result has n + 1 bits.
BitAdd(a, b) ==
    LET n == Len(a)
        m == Limbs(n)
    IN  LastBits(AddLimbs(PadLeft(a, m * LimbBits), PadLeft(b, m * LimbBits), m, 0),
                 n + 1)

\* The top j limbs of a minus those of b minus borrow, for a >= b.
RECURSIVE SubLimbs(_, _, _, _)
SubLimbs(a, b, j, borrow) ==
    IF j = 0 THEN <<>>
    ELSE LET s == LimbOf(a, j) - LimbOf(b, j) - borrow
         IN  SubLimbs(a, b, j - 1, IF s < 0 THEN 1 ELSE 0)
                 \o BitsOfLimb(IF s < 0 THEN s + LimbBase ELSE s)

\* a - b on magnitudes of equal length n, for a >= b.
BitSub(a, b) ==
    LET n == Len(a)
        m == Limbs(n)
    IN  LastBits(SubLimbs(PadLeft(a, m * LimbBits), PadLeft(b, m * LimbBits), m, 0), n)

\* a < b on magnitudes of equal length.
BitLess(a, b) ==
    \E i \in 1..Len(a) :
        /\ a[i] < b[i]
        /\ \A j \in 1..(i - 1) : a[j] = b[j]

\* The top j limbs of a times c plus carry, for c below 2^15.
RECURSIVE MulLimbs(_, _, _, _)
MulLimbs(a, c, j, carry) ==
    IF j = 0 THEN BitsOfLimb(carry)
    ELSE LET s == LimbOf(a, j) * c + carry
         IN  MulLimbs(a, c, j - 1, s \div LimbBase) \o BitsOfLimb(s % LimbBase)

\* a * c for a magnitude a and a natural number c below 2^15.
BitMul(a, c) ==
    LET m == Limbs(Len(a))
    IN  StripZeros(MulLimbs(PadLeft(a, m * LimbBits), c, m, 0))

FZero == [sgn |-> 1, exp |-> 0, man |-> <<>>]
IsZero(a) == a.man = <<>>

\* Round-to-nearest, ties-to-even, of sgn * bits * 2^exp (bits with a
\* leading 1, or empty); sticky says that nonzero bits lie below bits.
RoundDouble(sgn, bits, exp, sticky) ==
    LET n == Len(bits) IN
    IF n = 0 THEN FZero
    ELSE IF n <= Prec
    THEN [sgn |-> sgn, exp |-> exp - (Prec - n), man |-> bits \o Zeros(Prec - n)]
    ELSE LET keep  == SubSeq(bits, 1, Prec)
             guard == bits[Prec + 1]
             rest  == sticky \/ \E i \in (Prec + 2)..n : bits[i] = 1
             up    == guard = 1 /\ (rest \/ keep[Prec] = 1)
             inc   == BitAdd(keep, Zeros(Prec - 1) \o <<1>>)
         IN  IF ~up
             THEN [sgn |-> sgn, exp |-> exp + (n - Prec), man |-> keep]
             ELSE IF inc[1] = 1
             THEN [sgn |-> sgn, exp |-> exp + (n - Prec) + 1,
                   man |-> SubSeq(inc, 1, Prec)]
             ELSE [sgn |-> sgn, exp |-> exp + (n - Prec), man |-> Tail(inc)]

\* The binary digits of r / den (0 <= r < den < 2^15), a limb at a time,
\* appended to acc until acc, leading zeros aside, holds Prec + 1 bits or
\* the digits end.
RECURSIVE FracBits(_, _, _, _)
FracBits(r, den, acc, nfrac) ==
    IF r = 0 \/ Len(StripZeros(acc)) >= Prec + 1
    THEN [bits |-> StripZeros(acc), rem |-> r, nfrac |-> nfrac]
    ELSE FracBits((r * LimbBase) % den, den,
                  acc \o BitsOfLimb((r * LimbBase) \div den),
                  nfrac + LimbBits)

\* float("<n/den as decimal text>"): the double nearest to n / den.
FromRatio(n, den) ==
    LET q == Abs(n)
        d == FracBits(q % den, den, BitsOfNat(q \div den), 0)
    IN  RoundDouble(IF n < 0 THEN -1 ELSE 1, d.bits, -d.nfrac, d.rem # 0)

\* a + b in double arithmetic.
FAdd(a, b) ==
    IF IsZero(a) THEN b
    ELSE IF IsZero(b) THEN a
    ELSE LET lo == Min2(a.exp, b.exp)
             xa == a.man \o Zeros(a.exp - lo)
             xb == b.man \o Zeros(b.exp - lo)
             n  == Max2(Len(xa), Len(xb))
             pa == PadLeft(xa, n)
             pb == PadLeft(xb, n)
         IN  IF a.sgn = b.sgn
             THEN RoundDouble(a.sgn, StripZeros(BitAdd(pa, pb)), lo, FALSE)
             ELSE IF pa = pb THEN FZero
             ELSE IF BitLess(pa, pb)
             THEN RoundDouble(b.sgn, StripZeros(BitSub(pb, pa)), lo, FALSE)
             ELSE RoundDouble(a.sgn, StripZeros(BitSub(pa, pb)), lo, FALSE)

\* |a| < |b|
MagLess(a, b) ==
    IF IsZero(b) THEN FALSE
    ELSE IF IsZero(a) THEN TRUE
    ELSE \/ a.exp < b.exp
         \/ a.exp = b.exp /\ BitLess(a.man, b.man)

\* a > b
FGt(a, b) ==
    LET sa == IF IsZero(a) THEN 0 ELSE a.sgn
        sb == IF IsZero(b) THEN 0 ELSE b.sgn
    IN  IF sa # sb THEN sa > sb
        ELSE IF sa = 0 THEN FALSE
        ELSE IF sa = 1 THEN MagLess(b, a)
        ELSE MagLess(a, b)

\* format(a, " .5f") read back as a whole number of 1e-5: |a| * 10^5
\* (10^5 = 3125 * 32) rounded to the nearest integer, ties to even, on the
\* exact binary value.
Format5(a) ==
    IF IsZero(a) THEN 0
    ELSE LET p == BitMul(BitMul(a.man, 3125), 32)
             k == IF a.exp < 0 THEN -a.exp ELSE 0
             x == PadLeft(p \o Zeros(IF a.exp > 0 THEN a.exp ELSE 0), k + 1)
             n == Len(x)
             whole == NatOfBits(SubSeq(x, 1, n - k))
             guard == IF k = 0 THEN 0 ELSE x[n - k + 1]
             rest  == \E i \in (n - k + 2)..n : x[i] = 1
             up    == guard = 1 /\ (rest \/ whole % 2 = 1)
         IN  a.sgn * (IF up THEN whole + 1 ELSE whole)

(***************************************************************************)
(* Program state.                                                          *)
(***************************************************************************)
VARIABLES
    pc,              \* where the script stands
    argv,            \* the command line: depths in thousandths, sizes in grid steps
    args,            \* parse_args(): the depth arguments as doubles
    infile,          \* the lines of the TL file
    geometry_block,  \* read_gcode_geometry's result
    outline,         \* find_board_outline's result
    board,           \* BoardGeometry(outline).offset(tl_tool_dia / 2).outline
    cutout,          \* board.get_cutout(tool_dia, margin).outline
    opened,          \* the output file has been opened for writing
    out,             \* what has been written to the output file, block by block
    z,               \* write_gcode's z
    corner,          \* write_gcode's corner
    direction,       \* write_gcode's direction
    corner_poly,     \* write_gcode's corner_poly
    exit,            \* how the script ended: "" (running), "ok", or the error
    ring_start,      \* shapely's convention for the vertex a buffer ring starts at
    rerun,           \* the outline of a second offset() of the same outline
    sys_argv,        \* sys.argv of an invocation, a list of words
    cmdline_str,     \* what the three build_cmdline_str return for it
    rectangles,      \* svg_cutout.py: the rectangles read from the SVG file
    sorted_rectangles, \* svg_cutout.py: sort_rectangles' result
    heap,            \* the lists alive, by identity: heap[id] is what list id holds
    returned,        \* the calls made on a BoardGeometry, with what they returned
    config,          \* the Config object of test_pattern.py or svg_cutout.py
    squares,         \* test_pattern.py: the squares list
    sweep,           \* the locals of test_pattern.py's grid loops, or of the spiral
    path_data,       \* svg_cutout.py: the path of the rectangle being filled
    cur_rect,        \* svg_cutout.py: the rectangle being filled (rect)
    turns            \* the parity of the number of passes write_gcode has made

\* the functions checked on their own leave the script's variables alone,
\* and the script theirs
more == <<heap, returned, config, squares, sweep, path_data, cur_rect, turns>>

aux == <<rerun, sys_argv, cmdline_str, rectangles, sorted_rectangles, more>>

vars == <<pc, argv, args, infile, geometry_block, outline, board, cutout,
          opened, out, z, corner, direction, corner_poly, exit, ring_start,
          rerun, sys_argv, cmdline_str, rectangles, sorted_rectangles,
          heap, returned, config, squares, sweep, path_data, cur_rect, turns>>

MoreIdle ==
    /\ heap = <<>>
    /\ returned = <<>>
    /\ config = <<>>
    /\ squares = <<>>
    /\ sweep = <<>>
    /\ path_data = <<>>
    /\ cur_rect = <<>>
    /\ turns = 0

AuxIdle ==
    /\ rerun = <<>>
    /\ sys_argv = <<>>
    /\ cmdline_str = <<>>
    /\ rectangles = <<>>
    /\ sorted_rectangles = <<>>
    /\ MoreIdle

(***************************************************************************)
(* Outline extractor.  A line of the TL file is modelled by what the       *)
(* extractor reads from it: whether it contains "G1" or "G01", and the     *)
(* (x, y) pair extract_xy finds in it, NoXY when X or Y is missing.        *)
(***************************************************************************)
NoXY == <<>>
Move(x, y) == [g1 |-> TRUE, xy |-> <<x, y>>]
PlungeLine == [g1 |-> TRUE, xy |-> NoXY]     \* such as "G01 Z-0.0020 F2"
OtherLine == [g1 |-> FALSE, xy |-> NoXY]     \* such as "G00 Z0.0500"

\* abs(d) < 1e-5, in grid steps of 5e-6; the files below hold no two points
\* exactly two steps apart on an axis, where the doubles' rounding decides
CloseTol == 2

RECURSIVE ShoelaceSum(_, _)
ShoelaceSum(points, i) ==
    IF i > Len(points) THEN 0
    ELSE LET p == points[i]
             q == points[(i % Len(points)) + 1]
         IN  (p[1] * q[2]) - (q[1] * p[2]) + ShoelaceSum(points, i + 1)

\* abs(area) / 2.0, counted in half squares of the grid
polygon_area(points) == Abs(ShoelaceSum(points, 1))

NoLoop == [outlines |-> <<>>, current |-> <<>>, current_points |-> <<>>,
           start_xy |-> NoXY]

IsClosing(xy, start_xy, n) ==
    /\ Abs(xy[1] - start_xy[1]) < CloseTol
    /\ Abs(xy[2] - start_xy[2]) < CloseTol
    /\ n > 2

\* A run that a line without geometry ends is recorded when it has more
\* than two lines.
EndOfRun(st) ==
    IF Len(st.current) > 2
    THEN Append(st.outlines, <<st.current, st.current_points>>)
    ELSE st.outlines

\* One turn of the loop over geometry_block.
ScanLine(st, line) ==
    IF line.g1 /\ line.xy # NoXY
    THEN IF st.current = <<>>
         THEN [st EXCEPT !.start_xy = line.xy,
                         !.current = <<line>>,
                         !.current_points = <<line.xy>>]
         ELSE LET cur == Append(st.current, line)
                  pts == Append(st.current_points, line.xy)
              IN  IF IsClosing(line.xy, st.start_xy, Len(cur))
                  THEN [NoLoop EXCEPT !.outlines = Append(st.outlines, <<cur, pts>>)]
                  ELSE [st EXCEPT !.current = cur, !.current_points = pts]
    ELSE IF st.current # <<>>
         THEN [NoLoop EXCEPT !.outlines = EndOfRun(st)]
         ELSE st

RECURSIVE ScanLines(_, _, _)
ScanLines(st, block, i) ==
    IF i > Len(block) THEN st
    ELSE ScanLines(ScanLine(st, block[i]), block, i + 1)

\* max(outlines, key=polygon_area): the first outline of largest area
Largest(outlines) ==
    LET i == CHOOSE k \in 1..Len(outlines) :
                 /\ \A j \in 1..Len(outlines) :
                        polygon_area(outlines[j][2]) <= polygon_area(outlines[k][2])
                 /\ \A j \in 1..(k - 1) :
                        polygon_area(outlines[j][2]) < polygon_area(outlines[k][2])
    IN  outlines[i]

find_board_outline(block) ==
    LET st == ScanLines(NoLoop, block, 1)
        outlines == IF st.current # <<>> THEN EndOfRun(st) ELSE st.outlines
    IN  IF outlines # <<>> THEN Largest(outlines)[2] ELSE <<>>

\* read_gcode_geometry: the lines from the first to the last G1/G01 line;
\* without any, geometry_end + 1 raises TypeError.
HasG1(lines) == \E i \in 1..Len(lines) : lines[i].g1
read_gcode_geometry(lines) ==
    LET g == {i \in 1..Len(lines) : lines[i].g1}
        geometry_start == CHOOSE i \in g : \A j \in g : i <= j
        geometry_end == CHOOSE i \in g : \A j \in g : j <= i
    IN  SubSeq(lines, geometry_start, geometry_end)


(***************************************************************************)
(* BoardGeometry.  An outline is a sequence of points <<x, y>>.  On the    *)
(* grid two coordinates differ by less than Tolerance (1e-8), or by at     *)
(* most Tolerance, exactly when they are equal.                            *)
(***************************************************************************)
Near(a, b) == a = b

xs(poly) == {poly[i][1] : i \in 1..Len(poly)}
ys(poly) == {poly[i][2] : i \in 1..Len(poly)}
SetMin(S) == CHOOSE m \in S : \A v \in S : m <= v
SetMax(S) == CHOOSE m \in S : \A v \in S : v <= m

\* (min(xs), max(xs), min(ys), max(ys))
extents(poly) == <<SetMin(xs(poly)), SetMax(xs(poly)), SetMin(ys(poly)), SetMax(ys(poly))>>

Rotate(s, k) == SubSeq(s, k, Len(s)) \o SubSeq(s, 1, k - 1)

(***************************************************************************)
(* Polygon(outline).buffer(d).exterior.coords is shapely's, not this       *)
(* repository's.  For an outline of rectangular extents whose corners are  *)
(* cut by r (r = 0: sharp) it is modelled as the closed clockwise ring     *)
(* around the extents grown by d, its corners rounded with radius r + d    *)
(* and drawn with ArcSegs segments each; at which vertex the ring starts   *)
(* is left to the library: start is any index of the open ring.            *)
(***************************************************************************)
ArcSegs == 2

\* The vertices inside a quarter arc of segs segments, as the distances, in
\* hundredths of the radius, from the two sides the arc joins.
ArcOffsets(segs) ==
    CASE segs <= 1 -> <<>>
      [] segs = 2 -> << <<29, 29>> >>
      [] OTHER    -> << <<50, 13>>, <<13, 50>> >>

Reverse(s) == [i \in 1..Len(s) |-> s[Len(s) + 1 - i]]

\* how far from the extents' corner the bottom edge begins
CornerCut(poly) ==
    LET e == extents(poly)
    IN  SetMin({poly[i][1] : i \in {j \in 1..Len(poly) : poly[j][2] = e[3]}}) - e[1]

\* The open clockwise ring around [x0, x1] x [y0, y1] with corner radius r
\* and segs segments per corner, from the left end of the bottom edge.
RoundedRect(x0, x1, y0, y1, r, segs) ==
    LET o == ArcOffsets(segs)
        a(i) == (o[i][1] * r) \div 100
        b(i) == (o[i][2] * r) \div 100
        bl == [i \in 1..Len(o) |-> <<x0 + a(i), y0 + b(i)>>]
        tl == Reverse([i \in 1..Len(o) |-> <<x0 + a(i), y1 - b(i)>>])
        tr == [i \in 1..Len(o) |-> <<x1 - a(i), y1 - b(i)>>]
        br == Reverse([i \in 1..Len(o) |-> <<x1 - a(i), y0 + b(i)>>])
    IN  IF r = 0
        THEN <<<<x0, y0>>, <<x0, y1>>, <<x1, y1>>, <<x1, y0>>>>
        ELSE <<<<x0 + r, y0>>>> \o bl \o <<<<x0, y0 + r>>, <<x0, y1 - r>>>>
          \o tl \o <<<<x0 + r, y1>>, <<x1 - r, y1>>>>
          \o tr \o <<<<x1, y1 - r>>, <<x1, y0 + r>>>>
          \o br \o <<<<x1 - r, y0>>>>

\* The ring starts at the vertex the library's convention, start, picks; the
\* buffer of an empty polygon is empty and its ring has no coordinates.
Buffer(poly, d, start) ==
    LET e == extents(poly)
        ring == RoundedRect(e[1] - d, e[2] + d, e[3] - d, e[4] + d,
                            CornerCut(poly) + d, ArcSegs)
        open == Rotate(ring, ((start - 1) % Len(ring)) + 1)
    IN  IF poly = <<>> THEN <<>> ELSE Append(open, open[1])

\* what min(range(len(new_outline)), default=0, key=...) would do
MinNeverRaises(new_outline) == FALSE

\* min(range(len(new_outline)), key=...) raises ValueError on an empty range
MinRaises(new_outline) == new_outline = <<>>

\* a nearest vertex picked by an order that changes from one run to the
\* next: the first such vertex in the first run, the last in a later one
NearestToOriginPerRun(ring) ==
    LET d2(i) == (ring[i][1] * ring[i][1]) + (ring[i][2] * ring[i][2])
    IN  CHOOSE k \in 1..Len(ring) :
            /\ \A j \in 1..Len(ring) : d2(k) <= d2(j)
            /\ IF board = <<>>
               THEN \A j \in 1..(k - 1) : d2(k) < d2(j)
               ELSE \A j \in (k + 1)..Len(ring) : d2(k) < d2(j)

\* min(range(n), key=...): the first vertex nearest to the origin
NearestToOrigin(ring) ==
    LET d2(i) == (ring[i][1] * ring[i][1]) + (ring[i][2] * ring[i][2])
    IN  CHOOSE k \in 1..Len(ring) :
            /\ \A j \in 1..Len(ring) : d2(k) <= d2(j)
            /\ \A j \in 1..(k - 1) : d2(k) < d2(j)

\* the step from a vertex to the next one is along exactly one axis
CleanEdge(ring, idx) ==
    LET curr == ring[idx]
        nxt == ring[(idx % Len(ring)) + 1]
    IN  Near(curr[1], nxt[1]) # Near(curr[2], nxt[2])

\* for _ in range(n): the index at which the loop breaks, or to which it
\* has come back after n steps
RECURSIVE FirstCleanEdge(_, _, _)
FirstCleanEdge(ring, idx, left) ==
    IF left = 0 \/ CleanEdge(ring, idx) THEN idx
    ELSE FirstCleanEdge(ring, (idx % Len(ring)) + 1, left - 1)

\* new_outline[idx:] + new_outline[:idx]; an empty list has nothing to rotate
Rebase(new_outline) ==
    IF new_outline = <<>> THEN <<>>
    ELSE Rotate(new_outline,
                FirstCleanEdge(new_outline, NearestToOrigin(new_outline),
                               Len(new_outline)))

\* BoardGeometry.offset; start is the library's convention
OffsetRaises(poly, offset_value, start) == MinRaises(Buffer(poly, offset_value, start))
offset(poly, offset_value, start) == Rebase(Buffer(poly, offset_value, start))

\* get_cutout with the tool's diameter taken for its radius
get_cutout_by_diameter(poly, tool_dia, margin, start) == offset(poly, tool_dia + margin, start)

\* BoardGeometry.get_cutout
get_cutout(poly, tool_dia, margin, start) == offset(poly, (tool_dia \div 2) + margin, start)

(***************************************************************************)
(* BoardGeometry.extract_corner                                            *)
(***************************************************************************)
tab_x(poly, tab_size) == (extents(poly)[2] - extents(poly)[1] - tab_size) \div 2
tab_y(poly, tab_size) == (extents(poly)[4] - extents(poly)[3] - tab_size) \div 2

start_xy(poly, tab_size) ==
    LET e == extents(poly)
        tx == tab_x(poly, tab_size)
        ty == tab_y(poly, tab_size)
    IN  << <<e[1] + tx, e[3]>>, <<e[1], e[4] - ty>>,
           <<e[2] - tx, e[4]>>, <<e[2], e[3] + ty>> >>

\* end_xy with the last corner's end measured by tab_y
end_xy_by_tab_y(poly, tab_size) ==
    LET e == extents(poly)
        tx == tab_x(poly, tab_size)
        ty == tab_y(poly, tab_size)
    IN  << <<e[1], e[3] + ty>>, <<e[1] + tx, e[4]>>,
           <<e[2], e[4] - ty>>, <<e[2] - ty, e[3]>> >>

end_xy(poly, tab_size) ==
    LET e == extents(poly)
        tx == tab_x(poly, tab_size)
        ty == tab_y(poly, tab_size)
    IN  << <<e[1], e[3] + ty>>, <<e[1] + tx, e[4]>>,
           <<e[2], e[4] - ty>>, <<e[2] - tx, e[3]>> >>

\* next(i for i, p in enumerate(outline) if abs(p[axis] - v) <= tol)
FirstOn(poly, axis, v) ==
    LET on == {i \in 1..Len(poly) : Near(poly[i][axis], v)}
    IN  CHOOSE i \in on : \A j \in on : i <= j

\* walk_edge, were the vertex that ends the walk collected too
RECURSIVE walk_edge_inclusive(_, _, _, _)
walk_edge_inclusive(poly, idx, axis, bound) ==
    IF Near(poly[idx][axis], bound) THEN <<poly[idx]>>
    ELSE <<poly[idx]>> \o walk_edge_inclusive(poly, (idx % Len(poly)) + 1, axis, bound)

\* walk_edge: the vertices from idx on, cyclically, up to the first one whose
\* coordinate on axis has reached bound
RECURSIVE walk_edge(_, _, _, _)
walk_edge(poly, idx, axis, bound) ==
    IF Near(poly[idx][axis], bound) THEN <<>>
    ELSE <<poly[idx]>> \o walk_edge(poly, (idx % Len(poly)) + 1, axis, bound)

\* the index the walk starts from: one past the first vertex on the starting
\* edge when that vertex lies before the start point
WalkStart(poly, c, tab_size) ==
    LET s == start_xy(poly, tab_size)[c + 1]
        idx == IF c \in {0, 2} THEN FirstOn(poly, 2, s[2]) ELSE FirstOn(poly, 1, s[1])
        p == poly[idx]
        past == CASE c = 0 -> p[1] > s[1]
                  [] c = 2 -> p[1] < s[1]
                  [] c = 1 -> p[2] < s[2]
                  [] c = 3 -> p[2] > s[2]
    IN  IF past THEN (idx % Len(poly)) + 1 ELSE idx

extract_corner(poly, c, tab_size) ==
    LET e == extents(poly)
        idx == WalkStart(poly, c, tab_size)
        walked == CASE c = 0 -> walk_edge(poly, idx, 1, e[1])
                    [] c = 2 -> walk_edge(poly, idx, 1, e[2])
                    [] c = 1 -> walk_edge(poly, idx, 2, e[4])
                    [] c = 3 -> walk_edge(poly, idx, 2, e[3])
    IN  <<start_xy(poly, tab_size)[c + 1]>> \o walked \o <<end_xy(poly, tab_size)[c + 1]>>


(***************************************************************************)
(* BoardGeometry.write_gcode.  The output file is kept as the sequence of  *)
(* its paragraphs (write_gcode starts each with an empty line), and a      *)
(* paragraph as the sequence of its instructions [op, a, b]: a and b are   *)
(* X and Y for a move in the plane, a is Z for a move in depth, a depth    *)
(* being the whole number of 1e-5 in that the " .5f" format prints.        *)
(***************************************************************************)
Ins(op, a, b) == [op |-> op, a |-> a, b |-> b]
RapidZ(zf) == Ins("G00 Z", zf, 0)
RapidXY(p) == Ins("G00 XY", p[1], p[2])
FeedZ(zf) == Ins("G01 Z", zf, 0)
CutXY(p) == Ins("G01 XY", p[1], p[2])
CutMoves(pts) == [i \in 1..Len(pts) |-> CutXY(pts[i])]
\* G20, G90, G94 and the comment block
Header == <<Ins("G20", 0, 0), Ins("G90", 0, 0), Ins("G94", 0, 0)>>

\* retract, rapid to the first point, spindle on, descend to pass_z
Setup(poly, a) ==
    <<RapidZ(Format5(a.safe_z)), RapidXY(poly[1]), Ins("M03", 0, 0),
      RapidZ(Format5(a.pass_z))>>

\* "; Z = ... cut", the plunge, the feed rate, then the moves
PassHead(zz) == <<Ins("; Z", Format5(zz), 0), FeedZ(Format5(zz)), Ins("F", 0, 0)>>

\* a turn of the perimeter loop that does not go back to the first vertex
PerimeterParagraphOpen(poly, zz) == PassHead(zz) \o CutMoves(Tail(poly))

\* one turn of the perimeter loop
PerimeterParagraph(poly, zz) ==
    PassHead(zz) \o CutMoves(Tail(poly)) \o <<CutXY(poly[1])>>

\* the head of a corner block, up to direction = 1
CornerHead(c, cpoly, a) ==
    <<Ins("; Corner", c + 1, 0), RapidZ(Format5(a.pass_z)), RapidXY(cpoly[1]),
      RapidZ(Format5(a.tab_depth))>>

\* corner_poly[-2::-1] taken as corner_poly[1:] whatever the direction
IterableForward(cpoly, dir) == Tail(cpoly)

\* corner_poly[1:] if direction == 1 else corner_poly[-2::-1]
Iterable(cpoly, dir) ==
    IF dir = 1 THEN Tail(cpoly) ELSE Reverse(SubSeq(cpoly, 1, Len(cpoly) - 1))

\* one turn of a corner's pass loop
CornerParagraph(cpoly, dir, zz) == PassHead(zz) \o CutMoves(Iterable(cpoly, dir))

\* the direction after a pass, were direction *= -1 left out
Unflipped(dir) == dir

\* the direction after a pass
Flip(dir) == -dir

\* the direction a corner block starts with
FirstDirection == 1

\* return to a safe position
Shutdown(a) == <<RapidZ(Format5(a.safe_z)), RapidXY(<<0, 0>>), Ins("M05", 0, 0)>>

(***************************************************************************)
(* The command line.  Depths are drawn in thousandths of an inch and       *)
(* parsed by argparse's type=float; sizes in the plane are grid steps.     *)
(***************************************************************************)
parse_args(av) ==
    [z_cut     |-> FromRatio(av.z_cut, 1000),
     tab_depth |-> FromRatio(av.tab_depth, 1000),
     depth     |-> FromRatio(av.depth, 1000),
     pass_z    |-> FromRatio(av.pass_z, 1000),
     safe_z    |-> FromRatio(av.safe_z, 1000)]

\* if args.z_cut > 0: print("z_cut must be < 0"); sys.exit(1)
ZCutRejected(a) == FGt(a.z_cut, FZero)


(***************************************************************************)
(* Inputs.                                                                 *)
(***************************************************************************)
\* a closed rectangular loop of cutting moves, from corner (x0, y0), clockwise
RectLoop(x0, y0, w, h) ==
    <<Move(x0, y0), Move(x0, y0 + h), Move(x0 + w, y0 + h), Move(x0 + w, y0),
      Move(x0, y0)>>

\* The TL files of the pipeline: a board edge alone; traces inside a board
\* edge; no cutting move at all; cutting moves in depth only; two cutting
\* moves, which close no loop.
Files ==
    { <<OtherLine, PlungeLine>> \o RectLoop(0, 0, 40, 40) \o <<OtherLine>>,
      <<OtherLine, PlungeLine>> \o RectLoop(10, 10, 20, 10) \o <<OtherLine, PlungeLine>>
          \o RectLoop(0, 0, 60, 40) \o <<OtherLine>>,
      <<OtherLine, OtherLine>>,
      <<OtherLine, PlungeLine, OtherLine>>,
      <<OtherLine, Move(0, 0), Move(40, 0), OtherLine>> }

\* <<z_cut, tab_depth, depth>> in thousandths of an inch; the first is the
\* script's defaults
DepthArgs ==
    { <<-6, -36, -66>>, <<-3, -21, -30>>, <<-6, -36, -50>>, <<-6, -36, -30>>,
      <<-6, 0, -12>>, <<0, -36, -66>>, <<6, -36, -66>> }

TabSizes == {20, 60, 80, 100}

Argvs ==
    { [z_cut |-> d[1], tab_depth |-> d[2], depth |-> d[3], pass_z |-> 50,
       safe_z |-> 500, tab_size |-> t, tl_tool_dia |-> 20, tool_dia |-> 20,
       margin |-> 0] : d \in DepthArgs, t \in TabSizes }

\* the longest ring a buffer returns, closing vertex aside
MaxRing == 12

\* the output file is followed for this many paragraphs
MaxParagraphs == 40

(***************************************************************************)
(* The script: board_cutout.py's main block, write_gcode a paragraph at a  *)
(* time.                                                                   *)
(***************************************************************************)
Init ==
    /\ pc = "check_z_cut"
    /\ argv \in Argvs
    /\ args = parse_args(argv)
    /\ infile \in Files
    /\ ring_start \in 1..MaxRing
    /\ geometry_block = <<>>
    /\ outline = <<>>
    /\ board = <<>>
    /\ cutout = <<>>
    /\ opened = FALSE
    /\ out = <<>>
    /\ z = FZero
    /\ corner = 0
    /\ direction = FirstDirection
    /\ corner_poly = <<>>
    /\ exit = ""
    /\ AuxIdle

Raise(e) ==
    /\ pc' = "exit"
    /\ exit' = e

\* if args.z_cut > 0: sys.exit(1)
CheckZCut ==
    /\ pc = "check_z_cut"
    /\ IF ZCutRejected(args)
       THEN Raise("z_cut must be < 0")
       ELSE pc' = "read" /\ UNCHANGED exit
    /\ UNCHANGED <<argv, args, infile, geometry_block, outline, board, cutout,
                   opened, out, z, corner, direction, corner_poly, ring_start>>
    /\ UNCHANGED aux

\* geometry_block = read_gcode_geometry(args.infile)
ReadGeometry ==
    /\ pc = "read"
    /\ IF HasG1(infile)
       THEN /\ geometry_block' = read_gcode_geometry(infile)
            /\ pc' = "find"
            /\ UNCHANGED exit
       ELSE Raise("TypeError") /\ UNCHANGED geometry_block
    /\ UNCHANGED <<argv, args, infile, outline, board, cutout, opened, out, z,
                   corner, direction, corner_poly, ring_start>>
    /\ UNCHANGED aux

\* outline = find_board_outline(geometry_block)
FindOutline ==
    /\ pc = "find"
    /\ outline' = find_board_outline(geometry_block)
    /\ pc' = "offset"
    /\ UNCHANGED <<argv, args, infile, geometry_block, board, cutout, opened, out,
                   z, corner, direction, corner_poly, exit, ring_start>>
    /\ UNCHANGED aux

\* board = BoardGeometry(outline).offset(args.tl_tool_dia / 2); with no
\* outline, min() of an empty range raises ValueError
OffsetBoard ==
    /\ pc = "offset"
    /\ IF OffsetRaises(outline, argv.tl_tool_dia \div 2, ring_start)
       THEN Raise("ValueError") /\ UNCHANGED board
       ELSE /\ board' = offset(outline, argv.tl_tool_dia \div 2, ring_start)
            /\ pc' = "cutout"
            /\ UNCHANGED exit
    /\ UNCHANGED <<argv, args, infile, geometry_block, outline, cutout, opened,
                   out, z, corner, direction, corner_poly, ring_start>>
    /\ UNCHANGED aux

\* cutout = board.get_cutout(args.tool_dia, args.margin)
GetCutout ==
    /\ pc = "cutout"
    /\ IF OffsetRaises(board, (argv.tool_dia \div 2) + argv.margin, ring_start)
       THEN Raise("ValueError") /\ UNCHANGED cutout
       ELSE /\ cutout' = get_cutout(board, argv.tool_dia, argv.margin, ring_start)
            /\ pc' = "write"
            /\ UNCHANGED exit
    /\ UNCHANGED <<argv, args, infile, geometry_block, outline, board, opened,
                   out, z, corner, direction, corner_poly, ring_start>>
    /\ UNCHANGED aux

\* write_gcode, from open() to z = 0; on an empty outline min(self.xs) raises
\* ValueError once the header is written, and the with block closes the file
OpenAndSetup ==
    /\ pc = "write"
    /\ IF cutout = <<>>
       THEN /\ out' = <<Header>>
            /\ Raise("ValueError")
            /\ UNCHANGED <<opened, z>>
       ELSE /\ opened' = TRUE
            /\ out' = <<Header, Setup(cutout, args)>>
            /\ z' = FZero
            /\ pc' = "perimeter"
            /\ UNCHANGED exit
    /\ UNCHANGED <<argv, args, infile, geometry_block, outline, board, cutout,
                   corner, direction, corner_poly, ring_start>>
    /\ UNCHANGED aux

\* while z > args.tab_depth: one perimeter pass
PerimeterPass ==
    /\ pc = "perimeter"
    /\ FGt(z, args.tab_depth)
    /\ Len(out) < MaxParagraphs
    /\ out' = Append(out, PerimeterParagraph(cutout, z))
    /\ z' = FAdd(z, args.z_cut)
    /\ UNCHANGED <<pc, argv, args, infile, geometry_block, outline, board, cutout,
                   opened, corner, direction, corner_poly, exit, ring_start>>
    /\ UNCHANGED aux

\* the perimeter loop ends; for corner in range(4) begins
PerimeterEnd ==
    /\ pc = "perimeter"
    /\ ~FGt(z, args.tab_depth)
    /\ corner' = 0
    /\ pc' = "corner"
    /\ UNCHANGED <<argv, args, infile, geometry_block, outline, board, cutout,
                   opened, out, z, direction, corner_poly, exit, ring_start>>
    /\ UNCHANGED aux

\* a corner block, from extract_corner to z = args.tab_depth
CornerBegin ==
    /\ pc = "corner"
    /\ corner < 4
    /\ corner_poly' = extract_corner(cutout, corner, argv.tab_size)
    /\ out' = Append(out, CornerHead(corner, corner_poly', args))
    /\ direction' = FirstDirection
    /\ z' = args.tab_depth
    /\ pc' = "corner_pass"
    /\ UNCHANGED <<argv, args, infile, geometry_block, outline, board, cutout,
                   opened, corner, exit, ring_start>>
    /\ UNCHANGED aux

\* while z > args.depth: one pass over the corner
CornerPass ==
    /\ pc = "corner_pass"
    /\ FGt(z, args.depth)
    /\ Len(out) < MaxParagraphs
    /\ out' = Append(out, CornerParagraph(corner_poly, direction, z))
    /\ direction' = Flip(direction)
    /\ z' = FAdd(z, args.z_cut)
    /\ UNCHANGED <<pc, argv, args, infile, geometry_block, outline, board, cutout,
                   opened, corner, corner_poly, exit, ring_start>>
    /\ UNCHANGED aux

\* the corner's loop ends; the next corner
CornerEnd ==
    /\ pc = "corner_pass"
    /\ ~FGt(z, args.depth)
    /\ corner' = corner + 1
    /\ pc' = "corner"
    /\ UNCHANGED <<argv, args, infile, geometry_block, outline, board, cutout,
                   opened, out, z, direction, corner_poly, exit, ring_start>>
    /\ UNCHANGED aux

\* return to a safe position; the file is closed and the script ends
Finish ==
    /\ pc = "corner"
    /\ corner = 4
    /\ out' = Append(out, Shutdown(args))
    /\ opened' = FALSE
    /\ pc' = "exit"
    /\ exit' = "ok"
    /\ UNCHANGED <<argv, args, infile, geometry_block, outline, board, cutout, z,
                   corner, direction, corner_poly, ring_start>>
    /\ UNCHANGED aux

Next ==
    \/ CheckZCut
    \/ ReadGeometry
    \/ FindOutline
    \/ OffsetBoard
    \/ GetCutout
    \/ OpenAndSetup
    \/ PerimeterPass
    \/ PerimeterEnd
    \/ CornerBegin
    \/ CornerPass
    \/ CornerEnd
    \/ Finish

Spec == Init /\ [][Next]_vars



(***************************************************************************)
(* The outline extractor alone: read_gcode_geometry and find_board_outline *)
(* on files put together from sections.  A section is a closed loop, a run *)
(* of cutting moves that does not come back to its start and the line that *)
(* ends it, or a line without geometry.                                    *)
(***************************************************************************)
Sections ==
    { RectLoop(0, 0, 4, 4),
      <<Move(10, 0), Move(18, 0), Move(18, 6), Move(10, 6), Move(10, 0)>>,
      <<Move(0, 10), Move(6, 10), Move(0, 16), Move(1, 10)>>,
      <<Move(20, 20), Move(24, 20), Move(24, 24), Move(23, 20), OtherLine>>,
      <<Move(0, 0), Move(30, 0), Move(30, 30), PlungeLine>>,
      <<Move(0, 0), Move(8, 0), OtherLine>>,
      <<OtherLine>>,
      <<PlungeLine>> }

\* a file holds at most this many sections
MaxSections == 3

RECURSIVE Flatten(_)
Flatten(ss) == IF ss = <<>> THEN <<>> ELSE Head(ss) \o Flatten(Tail(ss))

Streams ==
    { Flatten(ss) : ss \in UNION {[1..n -> Sections] : n \in 1..MaxSections} }

InitOutline ==
    /\ pc = "read"
    /\ infile \in Streams
    /\ argv \in {a \in Argvs : a.tab_size = 20 /\ a.z_cut = -6 /\ a.depth = -66}
    /\ args = parse_args(argv)
    /\ ring_start = 1
    /\ geometry_block = <<>>
    /\ outline = <<>>
    /\ board = <<>>
    /\ cutout = <<>>
    /\ opened = FALSE
    /\ out = <<>>
    /\ z = FZero
    /\ corner = 0
    /\ direction = FirstDirection
    /\ corner_poly = <<>>
    /\ exit = ""
    /\ AuxIdle

NextOutline ==
    \/ ReadGeometry
    \/ FindOutline

SpecOutline == InitOutline /\ [][NextOutline]_vars

(***************************************************************************)
(* extract_corner alone, as a corner block of write_gcode calls it, on     *)
(* clockwise outlines of rectangular extents: sharp, chamfered (one        *)
(* segment per corner) or filleted, from any starting vertex, with and     *)
(* without the repeated closing vertex.                                    *)
(***************************************************************************)
CornerSizes == {<<80, 80>>, <<120, 80>>}
CornerRadii == {0, 20}
CornerTabs == {20, 60}

CornerPolys ==
    UNION { LET ring == RoundedRect(0, s[1], 0, s[2], r, n)
            IN  UNION { {Rotate(ring, k), Append(Rotate(ring, k), ring[k])} :
                        k \in 1..Len(ring) } :
            s \in CornerSizes, r \in CornerRadii, n \in 1..ArcSegs }

InitCorner ==
    /\ pc = "corner"
    /\ cutout \in CornerPolys
    /\ argv \in {a \in Argvs : a.tab_size \in CornerTabs /\ a.z_cut = -6 /\ a.depth = -66}
    /\ args = parse_args(argv)
    /\ corner \in 0..3
    /\ ring_start = 1
    /\ infile = <<>>
    /\ geometry_block = <<>>
    /\ outline = <<>>
    /\ board = <<>>
    /\ opened = TRUE
    /\ out = <<Header, Setup(cutout, args)>>
    /\ z = args.tab_depth
    /\ direction = FirstDirection
    /\ corner_poly = <<>>
    /\ exit = ""
    /\ AuxIdle

NextCorner == CornerBegin

SpecCorner == InitCorner /\ [][NextCorner]_vars


(***************************************************************************)
(* Reading the output file and the geometry back, for the properties.      *)
(***************************************************************************)
IsPass(par) == par[1].op = "; Z"
IsCornerHead(par) == par[1].op = "; Corner"
PassDepth(par) == par[2].a
PassXY(par) == [i \in 1..(Len(par) - 3) |-> <<par[i + 3].a, par[i + 3].b>>]

\* the paragraph of the corner block that paragraph i lies in; 0 before them
HeadBefore(i) ==
    LET hs == {k \in 1..(i - 1) : IsCornerHead(out[k])}
    IN  IF hs = {} THEN 0 ELSE SetMax(hs)

PerimeterPasses == {i \in 1..Len(out) : IsPass(out[i]) /\ HeadBefore(i) = 0}
CornerHeads == {k \in 1..Len(out) : IsCornerHead(out[k])}
PassesOf(k) == {i \in 1..Len(out) : IsPass(out[i]) /\ HeadBefore(i) = k}

\* a depth given in thousandths of an inch, as a whole number of 1e-5 in
Depth5(thousandths) == thousandths * 100

\* how many of v, v + step, v + 2 step, ... lie strictly above floor
StepsAbove(v, step, floor) ==
    IF v <= floor THEN 0 ELSE ((v - floor) + (-step) - 1) \div (-step)

Width(poly) == extents(poly)[2] - extents(poly)[1]
Height(poly) == extents(poly)[4] - extents(poly)[3]

\* p lies on the side and strictly inside the tab gap in its middle
InGap(p, poly, tab_size, side) ==
    LET e == extents(poly)
        tx == tab_x(poly, tab_size)
        ty == tab_y(poly, tab_size)
        inX == e[1] + tx < p[1] /\ p[1] < e[2] - tx
        inY == e[3] + ty < p[2] /\ p[2] < e[4] - ty
    IN  CASE side = "bottom" -> p[2] = e[3] /\ inX
          [] side = "top"    -> p[2] = e[4] /\ inX
          [] side = "left"   -> p[1] = e[1] /\ inY
          [] side = "right"  -> p[1] = e[2] /\ inY

Sides == {"bottom", "left", "top", "right"}
AdjacentSides(c) ==
    CASE c = 0 -> {"bottom", "left"}
      [] c = 1 -> {"left", "top"}
      [] c = 2 -> {"top", "right"}
      [] c = 3 -> {"right", "bottom"}

IsXYMove(line) == line.g1 /\ line.xy # NoXY
Closes(p, q) == Abs(p[1] - q[1]) < CloseTol /\ Abs(p[2] - q[2]) < CloseTol

\* The closed loops of a block, left to right, as pairs <<first, last>> of
\* line numbers: a loop runs from the first cutting move of a run to the
\* first later one, two lines on at least, that is back at it.
RECURSIVE LoopsFrom(_, _)
LoopsFrom(block, i) ==
    IF i > Len(block) THEN {}
    ELSE IF ~IsXYMove(block[i]) THEN LoopsFrom(block, i + 1)
    ELSE LET stops == {j \in i..Len(block) : ~IsXYMove(block[j])}
             last == IF stops = {} THEN Len(block) ELSE SetMin(stops) - 1
             back == {j \in (i + 2)..last : Closes(block[j].xy, block[i].xy)}
         IN  IF back = {} THEN LoopsFrom(block, last + 1)
             ELSE {<<i, SetMin(back)>>} \cup LoopsFrom(block, SetMin(back) + 1)

LoopPoints(block, l) == [i \in 1..(l[2] - l[1] + 1) |-> block[l[1] + i - 1].xy]


(***************************************************************************)
(* Properties of the script, SPECIFICATION Spec.                           *)
(***************************************************************************)
TabDepth5 == Depth5(argv.tab_depth)
ZCut5 == Depth5(argv.z_cut)
FinalDepth5 == Depth5(argv.depth)
Written == pc \in {"corner", "corner_pass"} \/ (pc = "exit" /\ exit = "ok")

\* C1: the tab gaps are never cut at or below tab_depth: every perimeter
\* pass is at a depth strictly above tab_depth, and every pass at a depth at
\* or below tab_depth lies in a corner block, moves only to points of that
\* corner's segment, and no point of the segment lies inside a tab gap.
C1_TabsNeverCutBelowTabDepth ==
    \A i \in 1..Len(out) :
        IsPass(out[i]) =>
            LET k == HeadBefore(i)
                seg == extract_corner(cutout, out[k][1].a - 1, argv.tab_size)
                on == {seg[j] : j \in 1..Len(seg)}
            IN  /\ k = 0 => PassDepth(out[i]) > TabDepth5
                /\ PassDepth(out[i]) <= TabDepth5 =>
                       /\ k > 0
                       /\ \A j \in 1..Len(PassXY(out[i])) : PassXY(out[i])[j] \in on
                       /\ \A p \in on : \A s \in Sides :
                              ~InGap(p, cutout, argv.tab_size, s)

\* C5: when the outline extractor has recorded no loop, or the input holds
\* no G1/G01 line, the script ends in an error before any output: it never
\* gets past the first offset, the output file is never opened and nothing
\* is written.
C5_NoLoopNoOutput ==
    LET found == \/ pc \in {"offset", "cutout", "write", "perimeter", "corner",
                            "corner_pass"}
                 \/ pc = "exit" /\ exit \in {"ValueError", "ok"}
    IN  ((found /\ outline = <<>>) \/ ~HasG1(infile)) =>
            /\ ~opened
            /\ out = <<>>
            /\ pc \in {"check_z_cut", "read", "find", "offset", "exit"}
            /\ pc = "exit" => exit \in {"z_cut must be < 0", "TypeError", "ValueError"}

\* a file with cutting moves that close no loop has ended the script in
\* ValueError with nothing written
C5_Witness ==
    /\ pc = "exit"
    /\ exit = "ValueError"
    /\ HasG1(infile)
    /\ geometry_block # <<>>
    /\ outline = <<>>
    /\ out = <<>>
    /\ ~opened

\* C6: with tab_size >= min(width, height) of the cutout polygon no corner
\* segment is returned, no cutting move is written and the script does not
\* end well.
C6_DegenerateTabRejected ==
    (cutout # <<>> /\ argv.tab_size >= Min2(Width(cutout), Height(cutout))) =>
        /\ corner_poly = <<>>
        /\ \A i \in 1..Len(out) : \A j \in 1..Len(out[i]) : out[i][j].op # "G01 XY"
        /\ ~(pc = "exit" /\ exit = "ok")

\* C7: z_cut >= 0 is rejected before any geometry is read and before any
\* output is written.
C7_NonNegativeStepRejected ==
    argv.z_cut >= 0 =>
        /\ pc \in {"check_z_cut", "exit"}
        /\ pc = "exit" => exit = "z_cut must be < 0"
        /\ geometry_block = <<>>
        /\ ~opened
        /\ out = <<>>

\* C8: the perimeter passes are at the depths 0, z_cut, 2 z_cut, ... in that
\* order, each strictly above tab_depth, and once the perimeter is done
\* there is one pass for each such depth.
C8_PerimeterDepths ==
    LET n == Cardinality(PerimeterPasses)
    IN  /\ PerimeterPasses = 3..(2 + n)
        /\ \A k \in 1..n :
               /\ PassDepth(out[2 + k]) = (k - 1) * ZCut5
               /\ PassDepth(out[2 + k]) > TabDepth5
        /\ Written => n = StepsAbove(0, ZCut5, TabDepth5)

\* C9: the finished program holds, after the perimeter passes, exactly four
\* corner blocks, for the corners 0, 1, 2, 3 in that order, each with one
\* pass per depth tab_depth, tab_depth + z_cut, ... strictly above depth.
C9_PassCounts ==
    (pc = "exit" /\ exit = "ok") =>
        LET n == StepsAbove(0, ZCut5, TabDepth5)
            m == StepsAbove(TabDepth5, ZCut5, FinalDepth5)
        IN  /\ Cardinality(PerimeterPasses) = n
            /\ Cardinality(CornerHeads) = 4
            /\ \A k \in CornerHeads :
                   /\ \A i \in PerimeterPasses : i < k
                   /\ out[k][1].a = 1 + Cardinality({h \in CornerHeads : h < k})
                   /\ PassesOf(k) = (k + 1)..(k + m)
                   /\ \A j \in 1..m :
                          /\ PassDepth(out[k + j]) = TabDepth5 + ((j - 1) * ZCut5)
                          /\ PassDepth(out[k + j]) > FinalDepth5

\* C10: in every corner block the tool is brought to the segment's start
\* point, the first pass runs the segment forward to its end point, each
\* following pass runs it in the direction opposite to the pass before, and
\* this holds in each block whatever the number of passes of the block
\* before it.
C10_DirectionAlternation ==
    \A k \in CornerHeads :
        LET seg == extract_corner(cutout, out[k][1].a - 1, argv.tab_size)
        IN  /\ out[k][3] = RapidXY(seg[1])
            /\ \A i \in PassesOf(k) :
                   PassXY(out[i]) = IF (i - k) % 2 = 1
                                    THEN Tail(seg)
                                    ELSE Reverse(SubSeq(seg, 1, Len(seg) - 1))

\* a finished program whose first corner block has an odd number of passes,
\* three at least, and whose second block has two passes or more
C10_Witness ==
    /\ pc = "exit"
    /\ exit = "ok"
    /\ \E h, k \in CornerHeads :
           /\ out[h][1].a = 1
           /\ out[k][1].a = 2
           /\ Cardinality(PassesOf(h)) % 2 = 1
           /\ Cardinality(PassesOf(h)) >= 3
           /\ Cardinality(PassesOf(k)) >= 2

(***************************************************************************)
(* Properties of the outline extractor, SPECIFICATION SpecOutline.         *)
(***************************************************************************)
\* C3: when the block holds several closed loops of distinct areas, the
\* outline returned is the point list of the loop of largest area, whatever
\* the loops' orientation and order.
C3_AreaSelection ==
    LET loops == LoopsFrom(geometry_block, 1)
        area(l) == polygon_area(LoopPoints(geometry_block, l))
    IN  ( /\ pc = "offset"
          /\ Cardinality(loops) >= 2
          /\ \A l, m \in loops : l # m => area(l) # area(m) ) =>
            \E l \in loops :
                /\ outline = LoopPoints(geometry_block, l)
                /\ \A m \in loops : area(m) <= area(l)

\* C4: the outline returned is empty or a closed loop, three points at
\* least, the last within 1e-5 of the first on both axes, and it is empty
\* when the block holds no closed loop.
C4_OnlyClosedLoops ==
    pc = "offset" =>
        /\ outline # <<>> =>
               /\ Len(outline) >= 3
               /\ Closes(outline[Len(outline)], outline[1])
        /\ LoopsFrom(geometry_block, 1) = {} => outline = <<>>

(***************************************************************************)
(* Properties of extract_corner, SPECIFICATION SpecCorner.                 *)
(***************************************************************************)
\* C2: with tab_size < min(W, H), no point of the segment of corner c lies
\* strictly inside the tab gap of either side adjacent to c.
C2_TabExclusion ==
    ( /\ pc = "corner_pass"
      /\ argv.tab_size < Min2(Width(cutout), Height(cutout)) ) =>
        \A i \in 1..Len(corner_poly) : \A s \in AdjacentSides(corner) :
            ~InGap(corner_poly[i], cutout, argv.tab_size, s)


(***************************************************************************)
(* BoardGeometry.offset alone: the two offsets of the script on outlines   *)
(* of several positions and shapes, the first of them run a second time    *)
(* on the same outline.  The square centred at the origin has eight        *)
(* vertices of its buffer ring nearest to the origin; the diamond's ring   *)
(* has no edge along an axis.                                              *)
(***************************************************************************)
LinePoints(lines) == [i \in 1..Len(lines) |-> lines[i].xy]

OffsetOutlines ==
    { LinePoints(RectLoop(-20, -20, 40, 40)),
      LinePoints(RectLoop(0, 0, 40, 40)),
      LinePoints(RectLoop(-30, -10, 80, 40)),
      <<<<0, -20>>, <<-20, 0>>, <<0, 20>>, <<20, 0>>, <<0, -20>>>> }

OffsetArgvs ==
    { [z_cut |-> -6, tab_depth |-> -36, depth |-> -66, pass_z |-> 50,
       safe_z |-> 500, tab_size |-> 20, tl_tool_dia |-> t, tool_dia |-> d,
       margin |-> m] : t \in {20, 40}, d \in {20, 60}, m \in {0, 10} }

InitOffset ==
    /\ pc = "offset"
    /\ outline \in OffsetOutlines
    /\ argv \in OffsetArgvs
    /\ args = parse_args(argv)
    /\ ring_start \in 1..MaxRing
    /\ infile = <<>>
    /\ geometry_block = <<>>
    /\ board = <<>>
    /\ cutout = <<>>
    /\ opened = FALSE
    /\ out = <<>>
    /\ z = FZero
    /\ corner = 0
    /\ direction = FirstDirection
    /\ corner_poly = <<>>
    /\ exit = ""
    /\ AuxIdle

\* BoardGeometry(outline).offset(args.tl_tool_dia / 2) once more
OffsetAgain ==
    /\ pc = "cutout"
    /\ rerun = <<>>
    /\ rerun' = offset(outline, argv.tl_tool_dia \div 2, ring_start)
    /\ UNCHANGED <<pc, argv, args, infile, geometry_block, outline, board, cutout,
                   opened, out, z, corner, direction, corner_poly, exit, ring_start,
                   sys_argv, cmdline_str, rectangles, sorted_rectangles, more>>

NextOffset ==
    \/ OffsetBoard
    \/ OffsetAgain
    \/ GetCutout

SpecOffset == InitOffset /\ [][NextOffset]_vars

(***************************************************************************)
(* Properties of offset, SPECIFICATION SpecOffset.                         *)
(***************************************************************************)
Grow(e, d) == <<e[1] - d, e[2] + d, e[3] - d, e[4] + d>>
Dist2(p) == (p[1] * p[1]) + (p[2] * p[2])

\* the buffer ring of the first offset
FirstRing == Buffer(outline, argv.tl_tool_dia \div 2, ring_start)

\* the step from p to q changes exactly one of x and y
OneAxisStep(p, q) == (p[1] = q[1]) # (p[2] = q[2])

C17_RebasingRule ==
    board # <<>> =>
        LET n == Len(FirstRing)
            nxt(i) == (i % n) + 1
            m == CHOOSE i \in 1..n :
                     /\ \A j \in 1..n : Dist2(FirstRing[i]) <= Dist2(FirstRing[j])
                     /\ \A j \in 1..(i - 1) : Dist2(FirstRing[i]) < Dist2(FirstRing[j])
            ahead(k) == (k - m) % n
        IN  /\ \E k \in 1..n :
                   /\ board = Rotate(FirstRing, k)
                   /\ OneAxisStep(FirstRing[k], FirstRing[nxt(k)])
                   /\ \A j \in 1..n :
                          ahead(j) < ahead(k) =>
                              ~OneAxisStep(FirstRing[j], FirstRing[nxt(j)])
            /\ OneAxisStep(board[1], board[2])

\* C18: in the list offset returns the first and the last point differ and
\* no point is followed, cyclically, by an equal one.
C18_PolygonInvariant ==
    board # <<>> =>
        /\ board[1] # board[Len(board)]
        /\ \A i \in 1..Len(board) : board[i] # board[(i % Len(board)) + 1]


(***************************************************************************)
(* Further properties of extract_corner, SPECIFICATION SpecCorner.         *)
(***************************************************************************)
MidX(poly) == (extents(poly)[1] + extents(poly)[2]) \div 2
MidY(poly) == (extents(poly)[3] + extents(poly)[4]) \div 2

\* the start and end points of the four corners as the specification
\* tabulates them, half a tab from the middle of a side
TabStart(poly, tab_size, c) ==
    LET e == extents(poly)
        h == tab_size \div 2
    IN  CASE c = 0 -> <<MidX(poly) - h, e[3]>>
          [] c = 1 -> <<e[1], MidY(poly) + h>>
          [] c = 2 -> <<MidX(poly) + h, e[4]>>
          [] c = 3 -> <<e[2], MidY(poly) - h>>

TabEnd(poly, tab_size, c) ==
    LET e == extents(poly)
        h == tab_size \div 2
    IN  CASE c = 0 -> <<e[1], MidY(poly) - h>>
          [] c = 1 -> <<MidX(poly) - h, e[4]>>
          [] c = 2 -> <<e[2], MidY(poly) + h>>
          [] c = 3 -> <<MidX(poly) + h, e[3]>>

\* p and q lie on one side of the bounding box, tab_size apart and
\* symmetric about the side's middle
TabAcross(p, q, poly, tab_size) ==
    LET e == extents(poly)
    IN  \/ /\ p[1] = q[1]
           /\ p[1] \in {e[1], e[2]}
           /\ Abs(p[2] - q[2]) = tab_size
           /\ p[2] + q[2] = e[3] + e[4]
        \/ /\ p[2] = q[2]
           /\ p[2] \in {e[3], e[4]}
           /\ Abs(p[1] - q[1]) = tab_size
           /\ p[1] + q[1] = e[1] + e[2]

\* C13: the segment of corner c begins with the tabulated start point of c
\* and ends with the tabulated end point of c, and the end point of each
\* corner and the start point of the next lie on one side, tab_size apart
\* and symmetric about its middle.
C13_CenteredTabs ==
    pc = "corner_pass" =>
        LET seg(c) == extract_corner(cutout, c, argv.tab_size)
        IN  /\ corner_poly[1] = TabStart(cutout, argv.tab_size, corner)
            /\ corner_poly[Len(corner_poly)] = TabEnd(cutout, argv.tab_size, corner)
            /\ \A c \in 0..3 :
                   TabAcross(seg(c)[Len(seg(c))], seg((c + 1) % 4)[1], cutout,
                             argv.tab_size)

\* the segment of corner 3 of an outline wider than high has been extracted
C13_Witness ==
    /\ pc = "corner_pass"
    /\ corner = 3
    /\ Width(cutout) # Height(cutout)
    /\ Len(corner_poly) > 2
    /\ corner_poly[Len(corner_poly)][2] = extents(cutout)[3]

\* the part of the bounding box that corner c's segment has to go round:
\* from its start point to its end point
InCornerBox(p, poly, tab_size, c) ==
    LET s == TabStart(poly, tab_size, c)
        e == TabEnd(poly, tab_size, c)
    IN  CASE c = 0 -> p[1] <= s[1] /\ p[2] <= e[2]
          [] c = 1 -> p[2] >= s[2] /\ p[1] <= e[1]
          [] c = 2 -> p[1] >= s[1] /\ p[2] >= e[2]
          [] c = 3 -> p[2] <= s[2] /\ p[1] >= e[1]

\* C19: the segment of corner c holds every vertex of the polygon that lies
\* on the boundary from the start point round the corner to the end point,
\* and holds nothing else between its two ends; the segment of a
\* rectangle's corner holds the rectangle's corner vertex.
C19_CornerCoverage ==
    ( /\ pc = "corner_pass"
      /\ argv.tab_size < Min2(Width(cutout), Height(cutout)) ) =>
        LET on == {corner_poly[i] : i \in 1..Len(corner_poly)}
            inner == {corner_poly[i] : i \in 2..(Len(corner_poly) - 1)}
            box == {cutout[i] : i \in {j \in 1..Len(cutout) :
                        InCornerBox(cutout[j], cutout, argv.tab_size, corner)}}
        IN  /\ box \subseteq on
            /\ inner \subseteq box

(***************************************************************************)
(* Further properties of the script, SPECIFICATION Spec.                   *)
(***************************************************************************)
\* C14: a finished program is the setup (retract to safe_z, rapid to the
\* first outline vertex, spindle on, descend to pass_z), the perimeter
\* passes, the four corner blocks and the shutdown (retract to safe_z, rapid
\* to X0 Y0, spindle off), in this order; no cutting move precedes spindle
\* on or follows the last retract; each perimeter pass goes to every outline
\* vertex in list order and ends at the first.
C14_ProgramOrdering ==
    LET n == Cardinality(PerimeterPasses)
        cuts(par) == \E j \in 1..Len(par) : par[j].op \in {"G01 XY", "G01 Z"}
        safe == Depth5(argv.safe_z)
    IN  /\ Len(out) >= 2 =>
               /\ ~cuts(out[1])
               /\ out[2] = <<Ins("G00 Z", safe, 0),
                             Ins("G00 XY", cutout[1][1], cutout[1][2]),
                             Ins("M03", 0, 0),
                             Ins("G00 Z", Depth5(argv.pass_z), 0)>>
        /\ PerimeterPasses = 3..(2 + n)
        /\ \A i \in PerimeterPasses : PassXY(out[i]) = Tail(cutout) \o <<cutout[1]>>
        /\ (pc = "exit" /\ exit = "ok") =>
               /\ Cardinality(CornerHeads) = 4
               /\ \A k \in CornerHeads :
                      out[k][1].a = 1 + Cardinality({h \in CornerHeads : h < k})
               /\ out[Len(out)] = <<Ins("G00 Z", safe, 0), Ins("G00 XY", 0, 0),
                                    Ins("M05", 0, 0)>>
               /\ \A i \in (3 + n)..(Len(out) - 1) :
                      \/ IsCornerHead(out[i])
                      \/ IsPass(out[i]) /\ HeadBefore(i) > 0

\* a finished program with two perimeter passes at least and a pass in
\* every corner block
C14_Witness ==
    /\ pc = "exit"
    /\ exit = "ok"
    /\ Cardinality(PerimeterPasses) >= 2
    /\ \A k \in CornerHeads : PassesOf(k) # {}

\* C20: with tab_depth >= depth and z_cut < 0, the deepest pass of every
\* corner block of a finished program is at the final depth or below it.
C20_FinalDepthReached ==
    ( /\ pc = "exit"
      /\ exit = "ok"
      /\ argv.tab_depth >= argv.depth
      /\ argv.z_cut < 0 ) =>
        \A k \in CornerHeads :
            \E i \in PassesOf(k) : PassDepth(out[i]) <= FinalDepth5


(***************************************************************************)
(* build_cmdline_str, the comment block that reports the command line.     *)
(* The three scripts share the loop that packs words into lines; they      *)
(* differ in the words they hand to it.  Words are strings, sys_argv is     *)
(* sys.argv with the script's name first.                                  *)
(***************************************************************************)
LineWidth == 80

\* the loop body and the trailing "if current" of build_cmdline_str
RECURSIVE PackWords(_, _, _, _)
PackWords(words, i, current, lines) ==
    IF i > Len(words)
    THEN IF current # "" THEN Append(lines, current) ELSE lines
    ELSE LET arg == words[i] IN
         IF current # "" /\ Len(current) + 1 + Len(arg) > LineWidth
         THEN PackWords(words, i + 1, arg, Append(lines, current))
         ELSE IF current # ""
              THEN PackWords(words, i + 1, current \o " " \o arg, lines)
              ELSE PackWords(words, i + 1, arg, lines)

\* argv[a:b] of Python, 0-based and end-exclusive, for 0 <= a
Slice(s, a, b) == IF b > a THEN SubSeq(s, a + 1, b) ELSE <<>>

\* board_cutout.py: for arg in argv[3:]
build_cmdline_str(av) == PackWords(Slice(av, 3, Len(av)), 1, "", <<>>)

\* svg_cutout.py: for i in range(1, len(argv)-2)
svg_build_cmdline_str(av) == PackWords(Slice(av, 1, Len(av) - 2), 1, "", <<>>)

\* test_pattern.py: for arg in argv, skipping the words equal to outfile
test_pattern_build_cmdline_str(av, outfile) ==
    PackWords(SelectSeq(av, LAMBDA arg : arg # outfile), 1, "", <<>>)

(***************************************************************************)
(* Command lines the argument parsers accept: the positional arguments     *)
(* (infile and outfile, or outfile alone) and some of the script's         *)
(* options, given as --name=value words before, between or after the       *)
(* positional ones.                                                        *)
(***************************************************************************)
Scripts == {"board_cutout.py", "svg_cutout.py", "test_pattern.py"}

OptionWords(script) ==
    CASE script = "board_cutout.py" ->
           <<"--tl_tool_dia=0.015", "--tab_depth=-0.036", "--tool_dia=0.059", "--xy_speed=4.0">>
      [] script = "svg_cutout.py" ->
           <<"--raster_mode=1", "--tool_dia=0.015", "--overlap=0.15", "--spindle=12000">>
      [] script = "test_pattern.py" ->
           <<"--fill_step_start=0.004", "--square_size=0.050", "--xy_speed_start=4.0",
             "--spindle_start=12000">>

InfileWords(script) ==
    CASE script = "board_cutout.py" -> {"in.tl", "boards/controller_rev_b/controller_rev_b_top_layer.tl"}
      [] script = "svg_cutout.py" -> {"in.svg", "drawings/front_panel/front_panel_cutouts_rev_b.svg"}
      [] script = "test_pattern.py" -> {}

OutfileWord == "out.nc"

IsOption(script, w) == \E k \in DOMAIN OptionWords(script) : OptionWords(script)[k] = w

\* the options of a given set of positions, in the order of OptionWords
RECURSIVE Chosen(_, _, _)
Chosen(script, ks, k) ==
    IF k > Len(OptionWords(script)) THEN <<>>
    ELSE (IF k \in ks THEN <<OptionWords(script)[k]>> ELSE <<>>) \o Chosen(script, ks, k + 1)

CmdLines ==
    UNION { LET opts == Chosen(script, ks, 1)
                n == Len(opts)
            IN  IF script = "test_pattern.py"
                THEN { <<script>> \o SubSeq(opts, 1, i) \o <<OutfileWord>> \o SubSeq(opts, i + 1, n) :
                       i \in 0..n }
                ELSE UNION { { <<script>> \o SubSeq(opts, 1, ij[1]) \o <<inword>>
                                  \o SubSeq(opts, ij[1] + 1, ij[2]) \o <<OutfileWord>>
                                  \o SubSeq(opts, ij[2] + 1, n) :
                               ij \in {p \in (0..n) \X (0..n) : p[1] <= p[2]} } :
                             inword \in InfileWords(script) }
          : script \in Scripts, ks \in SUBSET (1..4) }

\* argparse: the positional arguments are the words that are not options
Positionals(av) == SelectSeq(Tail(av), LAMBDA w : ~IsOption(av[1], w))

\* args.outfile: the second positional argument, the only one of test_pattern.py
ParsedOutfile(av) ==
    IF av[1] = "test_pattern.py" THEN Positionals(av)[1] ELSE Positionals(av)[2]

\* the variables of board_cutout.py's run, at rest
ScriptIdle ==
    /\ argv = <<>>
    /\ args = <<>>
    /\ infile = <<>>
    /\ geometry_block = <<>>
    /\ outline = <<>>
    /\ board = <<>>
    /\ cutout = <<>>
    /\ opened = FALSE
    /\ out = <<>>
    /\ z = FZero
    /\ corner = 0
    /\ direction = FirstDirection
    /\ corner_poly = <<>>
    /\ exit = ""
    /\ ring_start = 1
    /\ rerun = <<>>

InitCmdline ==
    /\ pc = "cmdline"
    /\ sys_argv \in CmdLines
    /\ cmdline_str = <<>>
    /\ rectangles = <<>>
    /\ sorted_rectangles = <<>>
    /\ MoreIdle
    /\ ScriptIdle

CmdlineUnchanged ==
    UNCHANGED <<argv, args, infile, geometry_block, outline, board, cutout,
                opened, out, z, corner, direction, corner_poly, exit, ring_start,
                rerun, sys_argv, rectangles, sorted_rectangles, more>>

\* board_cutout.py line 238: build_cmdline_str(sys.argv)
BoardCmdline ==
    /\ pc = "cmdline"
    /\ sys_argv[1] = "board_cutout.py"
    /\ cmdline_str' = build_cmdline_str(sys_argv)
    /\ pc' = "cmdline_done"
    /\ CmdlineUnchanged

\* svg_cutout.py line 459: build_cmdline_str(sys.argv)
SvgCmdline ==
    /\ pc = "cmdline"
    /\ sys_argv[1] = "svg_cutout.py"
    /\ cmdline_str' = svg_build_cmdline_str(sys_argv)
    /\ pc' = "cmdline_done"
    /\ CmdlineUnchanged

\* test_pattern.py line 247: build_cmdline_str(sys.argv[1:], args.outfile)
TestPatternCmdline ==
    /\ pc = "cmdline"
    /\ sys_argv[1] = "test_pattern.py"
    /\ cmdline_str' = test_pattern_build_cmdline_str(Tail(sys_argv), ParsedOutfile(sys_argv))
    /\ pc' = "cmdline_done"
    /\ CmdlineUnchanged

NextCmdline ==
    \/ BoardCmdline
    \/ SvgCmdline
    \/ TestPatternCmdline

SpecCmdline == InitCmdline /\ [][NextCmdline]_vars

(***************************************************************************)
(* Properties of build_cmdline_str, SPECIFICATION SpecCmdline.             *)
(***************************************************************************)
RECURSIVE JoinWords(_)
JoinWords(ws) ==
    IF ws = <<>> THEN ""
    ELSE IF Len(ws) = 1 THEN ws[1]
    ELSE ws[1] \o " " \o JoinWords(Tail(ws))

\* the position in sys_argv of the word argparse takes as outfile
OutfileAt(av) ==
    CHOOSE i \in 2..Len(av) :
        /\ ~IsOption(av[1], av[i])
        /\ Len(Positionals(SubSeq(av, 1, i))) = (IF av[1] = "test_pattern.py" THEN 1 ELSE 2)

\* the invocation's arguments with the output filename removed
ArgumentsButOutfile(av) ==
    SubSeq(av, 2, OutfileAt(av) - 1) \o SubSeq(av, OutfileAt(av) + 1, Len(av))

\* C15: the lines build_cmdline_str returns, joined with single spaces, are
\* the invocation's arguments in their order with only the output filename
\* removed, for each of the three scripts.
C15_OnlyOutfileExcluded ==
    pc = "cmdline_done" =>
        JoinWords(cmdline_str) = JoinWords(ArgumentsButOutfile(sys_argv))

\* what holds of the three versions: test_pattern.py's reports exactly the
\* arguments but outfile, and no version returns a line longer than LineWidth
\* or an empty one
CmdlineOfTestPattern ==
    (pc = "cmdline_done" /\ sys_argv[1] = "test_pattern.py") =>
        /\ JoinWords(cmdline_str) = JoinWords(ArgumentsButOutfile(sys_argv))
        /\ \A k \in DOMAIN cmdline_str : Len(cmdline_str[k]) \in 1..LineWidth


(***************************************************************************)
(* sort_rectangles of svg_cutout.py.  A rectangle is the tuple             *)
(* <<x_min, y_min, width, height>> in grid steps.  Centres are kept        *)
(* doubled, so that width / 2 is exact, and distances squared: on the grid *)
(* the square root of the key orders the rectangles as its argument does.  *)
(***************************************************************************)
MaxRects == 3

\* twice (rect[0] + rect[2] / 2, rect[1] + rect[3] / 2)
Centre2(rect) == <<(2 * rect[1]) + rect[3], (2 * rect[2]) + rect[4]>>

\* the key of min, lines 191: the distance of the centre from the current
\* point, here four times its square
SortKey(rect, current2) ==
    LET c == Centre2(rect) IN
    ((c[1] - current2[1]) * (c[1] - current2[1])) + ((c[2] - current2[2]) * (c[2] - current2[2]))

\* min(remaining_rectangles, key=...): the first of the elements of least key
Closest(remaining, current2) ==
    remaining[CHOOSE i \in DOMAIN remaining :
                 /\ \A j \in DOMAIN remaining :
                        SortKey(remaining[i], current2) <= SortKey(remaining[j], current2)
                 /\ \A j \in 1..(i - 1) :
                        SortKey(remaining[j], current2) > SortKey(remaining[i], current2)]

\* a list without all the elements equal to x
RemoveEvery(s, x) == SelectSeq(s, LAMBDA e : e # x)

\* list.remove(x): the list without the first element equal to x
Remove(s, x) ==
    LET i == CHOOSE k \in DOMAIN s : s[k] = x /\ \A j \in 1..(k - 1) : s[j] # x
    IN  SubSeq(s, 1, i - 1) \o SubSeq(s, i + 1, Len(s))

\* the while loop of lines 187-198
RECURSIVE SortLoop(_, _, _)
SortLoop(remaining_rectangles, current2, sorted) ==
    IF remaining_rectangles = <<>> THEN sorted
    ELSE LET closest_rect == Closest(remaining_rectangles, current2) IN
         SortLoop(Remove(remaining_rectangles, closest_rect), Centre2(closest_rect),
                  Append(sorted, closest_rect))

\* the list returned, and the list the caller passed as the call leaves it:
\* the loop works on the copy rectangles[:]
sort_rectangles(rects) ==
    IF rects = <<>>
    THEN [sorted_rectangles |-> <<>>, rectangles |-> rects]
    ELSE [sorted_rectangles |-> SortLoop(rects, <<0, 0>>, <<>>), rectangles |-> rects]

\* rectangles of parse_svg_rectangles: two at the same distance from the
\* origin, two with the same centre, one with an odd height
RectPool ==
    { <<0, 0, 20, 20>>, <<5, 5, 10, 10>>, <<10, -10, 20, 20>>, <<-10, 10, 20, 20>>,
      <<30, 30, 10, 10>>, <<-40, 0, 20, 5>> }

RectLists == UNION { [1..n -> RectPool] : n \in 0..MaxRects }

InitSort ==
    /\ pc = "sort"
    /\ rectangles \in RectLists
    /\ sorted_rectangles = <<>>
    /\ sys_argv = <<>>
    /\ cmdline_str = <<>>
    /\ MoreIdle
    /\ ScriptIdle

\* sort_rectangles(rectangles)
SortRectangles ==
    /\ pc = "sort"
    /\ sorted_rectangles' = sort_rectangles(rectangles).sorted_rectangles
    /\ rectangles' = sort_rectangles(rectangles).rectangles
    /\ pc' = "sorted"
    /\ UNCHANGED <<argv, args, infile, geometry_block, outline, board, cutout,
                   opened, out, z, corner, direction, corner_poly, exit, ring_start,
                   rerun, sys_argv, cmdline_str, more>>

NextSort == SortRectangles

SpecSort == InitSort /\ [][NextSort]_vars

(***************************************************************************)
(* Properties of sort_rectangles, SPECIFICATION SpecSort.                  *)
(***************************************************************************)
Count(s, x) == Cardinality({k \in DOMAIN s : s[k] = x})

IsPermutation(s, t) ==
    /\ Len(s) = Len(t)
    /\ \A k \in DOMAIN t : Count(s, t[k]) = Count(t, t[k])

\* twice the point the k-th rectangle is chosen from
CurrentBefore(s, k) == IF k = 1 THEN <<0, 0>> ELSE Centre2(s[k - 1])

NearestNeighbourOrder(s) ==
    \A k \in DOMAIN s : \A j \in k..Len(s) :
        SortKey(s[k], CurrentBefore(s, k)) <= SortKey(s[j], CurrentBefore(s, k))

\* C16: the list sort_rectangles returns is a permutation of its input, with
\* the multiplicities of the input, in nearest-neighbour order from the
\* origin, and the call leaves the input list as it was.
C16_NearestNeighbourPermutation ==
    /\ [](pc = "sorted" =>
            /\ IsPermutation(sorted_rectangles, rectangles)
            /\ NearestNeighbourOrder(sorted_rectangles))
    /\ [][rectangles' = rectangles]_vars

\* a list with a rectangle twice has been put into another order
C16_Witness ==
    /\ pc = "sorted"
    /\ Len(rectangles) = 3
    /\ rectangles[1] = rectangles[3]
    /\ rectangles[1] # rectangles[2]
    /\ sorted_rectangles # rectangles
    /\ Count(sorted_rectangles, rectangles[1]) = 2


(***************************************************************************)
(* The tool's position, read back from the output file.                    *)
(***************************************************************************)
IsXYIns(ins) == ins.op \in {"G00 XY", "G01 XY"}
IsZIns(ins) == ins.op \in {"G00 Z", "G01 Z"}

\* where the last move in the plane of prog has left the tool; <<>> before any
XYAfter(prog) ==
    LET ks == {k \in 1..Len(prog) : IsXYIns(prog[k])}
    IN  IF ks = {} THEN <<>> ELSE <<prog[SetMax(ks)].a, prog[SetMax(ks)].b>>

\* the depth the last move in Z of prog has left the tool at; <<>> before any
ZAfter(prog) ==
    LET ks == {k \in 1..Len(prog) : IsZIns(prog[k])}
    IN  IF ks = {} THEN <<>> ELSE <<prog[SetMax(ks)].a>>

\* the tool's place in the plane before paragraph i of the file
RECURSIVE XYBefore(_)
XYBefore(i) ==
    IF i <= 1 THEN <<>>
    ELSE IF XYAfter(out[i - 1]) # <<>> THEN XYAfter(out[i - 1])
    ELSE XYBefore(i - 1)

\* the tool's depth before instruction n of paragraph i
RECURSIVE ZBefore(_, _)
ZBefore(i, n) ==
    IF i < 1 THEN <<>>
    ELSE IF ZAfter(SubSeq(out[i], 1, n - 1)) # <<>> THEN ZAfter(SubSeq(out[i], 1, n - 1))
    ELSE IF i = 1 THEN <<>>
    ELSE ZBefore(i - 1, Len(out[i - 1]) + 1)

\* the corner a corner block's head names
CornerOf(k) == out[k][1].a - 1

\* the paragraphs of the block that the head in paragraph k opens: the ones
\* after k and before the next head
BlockOf(k) ==
    LET later == {h \in (k + 1)..Len(out) : IsCornerHead(out[h])}
        stop == IF later = {} THEN Len(out) + 1 ELSE SetMin(later)
    IN  {i \in (k + 1)..(stop - 1) : IsPass(out[i])}

\* C25: at the start of every corner pass the tool stands at the end of the
\* corner's segment the pass sets out from, the start point for the odd
\* passes and the end point for the even ones, and the pass follows the
\* segment from there to its other end; every rapid move in the plane is
\* made with the tool at pass_z or safe_z.
C25_ToolContinuity ==
    /\ \A k \in CornerHeads :
           LET seg == extract_corner(cutout, CornerOf(k), argv.tab_size)
               block == BlockOf(k)
           IN  \A i \in block :
                   LET path == <<XYBefore(i)>> \o PassXY(out[i])
                       nth == Cardinality({j \in block : j <= i})
                   IN  path = IF nth % 2 = 1 THEN seg ELSE Reverse(seg)
    /\ \A i \in 1..Len(out) : \A n \in 1..Len(out[i]) :
           out[i][n].op = "G00 XY" =>
               ZBefore(i, n) \in {<<Depth5(argv.pass_z)>>, <<Depth5(argv.safe_z)>>}

\* the script has ended well with a corner block of three passes or more over
\* a segment of three points or more
C25_Witness ==
    /\ pc = "exit"
    /\ exit = "ok"
    /\ \E k \in CornerHeads :
           /\ Cardinality(BlockOf(k)) >= 3
           /\ Len(extract_corner(cutout, CornerOf(k), argv.tab_size)) >= 3


\* the tool's place in the plane before instruction n of paragraph i
XYBeforeIns(i, n) ==
    IF XYAfter(SubSeq(out[i], 1, n - 1)) # <<>>
    THEN XYAfter(SubSeq(out[i], 1, n - 1))
    ELSE XYBefore(i)

\* p lies on the straight line from a to b
OnSegment(p, a, b) ==
    /\ ((b[1] - a[1]) * (p[2] - a[2])) = ((b[2] - a[2]) * (p[1] - a[1]))
    /\ Min2(a[1], b[1]) <= p[1] /\ p[1] <= Max2(a[1], b[1])
    /\ Min2(a[2], b[2]) <= p[2] /\ p[2] <= Max2(a[2], b[2])

\* a pass among the first m paragraphs has fed the tool through p at depth d
\* or deeper: the pass plunges where the tool stands and cuts from there
\* along its moves
CutBefore(m, p, d) ==
    \E i \in 1..m :
        /\ IsPass(out[i])
        /\ PassDepth(out[i]) <= d
        /\ LET path == <<XYBefore(i)>> \o PassXY(out[i])
           IN  \E j \in 1..Len(path) :
                   OnSegment(p, path[j], path[IF j = Len(path) THEN j ELSE j + 1])

\* C26: a rapid move in Z to a depth d <= 0 is made only at a point that a
\* feed move has already cut to d or deeper; so is the rapid descent to
\* tab_depth that opens each corner block.
C26_NoRapidPlunge ==
    \A i \in 1..Len(out) : \A n \in 1..Len(out[i]) :
        (out[i][n].op = "G00 Z" /\ out[i][n].a <= 0) =>
            CutBefore(i - 1, XYBeforeIns(i, n), out[i][n].a)


(***************************************************************************)
(* extract_corner on any vertex list: lists of one vertex or more over a   *)
(* few grid points, closed or not, rectilinear or not, with repeated       *)
(* vertices.                                                               *)
(***************************************************************************)
MaxVertices == 4

AnyPoints == {<<0, 0>>, <<10, 0>>, <<0, 10>>, <<20, 10>>}

AnyPolys == UNION { [1..n -> AnyPoints] : n \in 1..MaxVertices }

InitCornerAny ==
    /\ pc = "corner"
    /\ cutout \in AnyPolys
    /\ argv \in {a \in Argvs : a.tab_size \in CornerTabs /\ a.z_cut = -6 /\ a.depth = -66}
    /\ args = parse_args(argv)
    /\ corner \in 0..3
    /\ ring_start = 1
    /\ infile = <<>>
    /\ geometry_block = <<>>
    /\ outline = <<>>
    /\ board = <<>>
    /\ opened = TRUE
    /\ out = <<Header, Setup(cutout, args)>>
    /\ z = args.tab_depth
    /\ direction = FirstDirection
    /\ corner_poly = <<>>
    /\ exit = ""
    /\ AuxIdle

NextCornerAny == CornerBegin

SpecCornerAny == InitCornerAny /\ [][NextCornerAny]_vars

\* the vertices the search of lines 182 and 198 accepts: those on the edge
\* the corner's start point lies on
OnStartEdge(poly, c, tab_size) ==
    LET s == start_xy(poly, tab_size)[c + 1]
        axis == IF c \in {0, 2} THEN 2 ELSE 1
    IN  {i \in 1..Len(poly) : Near(poly[i][axis], s[axis])}

\* the vertices at which the loop condition of the corner's walk is false
StopsWalk(poly, c) ==
    LET e == extents(poly)
    IN  CASE c = 0 -> {i \in 1..Len(poly) : Near(poly[i][1], e[1])}
          [] c = 2 -> {i \in 1..Len(poly) : Near(poly[i][1], e[2])}
          [] c = 1 -> {i \in 1..Len(poly) : Near(poly[i][2], e[4])}
          [] c = 3 -> {i \in 1..Len(poly) : Near(poly[i][2], e[3])}

\* C24: on a polygon of one vertex or more, for every corner and tab_size,
\* the search for the first vertex on the starting edge finds one, the
\* cyclic walk meets a vertex that stops it, it collects fewer vertices
\* than the polygon has, and the segment has at most len(outline) + 1
\* points.
C24_ExtractCornerTotal ==
    /\ \A c \in 0..3 :
           /\ OnStartEdge(cutout, c, argv.tab_size) # {}
           /\ StopsWalk(cutout, c) # {}
    /\ pc = "corner_pass" =>
           /\ corner_poly = extract_corner(cutout, corner, argv.tab_size)
           /\ Len(corner_poly) - 2 < Len(cutout)
           /\ Len(corner_poly) <= Len(cutout) + 1

\* a segment of len(outline) + 1 points has been extracted from a polygon
\* of three vertices or more that is not rectilinear
C24_Witness ==
    /\ pc = "corner_pass"
    /\ Len(cutout) >= 3
    /\ Len(corner_poly) = Len(cutout) + 1
    /\ \E i \in 1..(Len(cutout) - 1) :
           cutout[i][1] # cutout[i + 1][1] /\ cutout[i][2] # cutout[i + 1][2]

(***************************************************************************)
(* Termination of the board script.  Whether write_gcode's loops end is    *)
(* decided by z, args.z_cut, args.tab_depth and args.depth alone: neither  *)
(* the polygon nor the text written enters a loop condition.  SpecLoops    *)
(* therefore follows the script's control and its depths and leaves the    *)
(* geometry and the file's content to Spec.  turns tells one pass from the *)
(* next, so that a run that never ends is a cycle of distinct states.  The *)
(* script is one sequential process: whenever it has a next statement it   *)
(* executes it.                                                            *)
(***************************************************************************)
\* <<z_cut, tab_depth, depth>>: the defaults; a step of 0; no perimeter pass
\* (tab_depth >= 0); no corner pass (depth >= tab_depth); neither; a step of
\* 0 with no perimeter pass; a positive step
LoopDepthArgs ==
    { <<-6, -36, -66>>, <<-3, -21, -30>>, <<0, -36, -66>>, <<-6, 0, -12>>,
      <<-6, 6, -12>>, <<-6, -36, -30>>, <<-6, 0, 0>>, <<0, 0, -12>>, <<0, 0, 0>>,
      <<6, -36, -66>> }

LoopArgvs ==
    { [z_cut |-> d[1], tab_depth |-> d[2], depth |-> d[3], pass_z |-> 50,
       safe_z |-> 500, tab_size |-> 20, tl_tool_dia |-> 20, tool_dia |-> 20,
       margin |-> 0] : d \in LoopDepthArgs }

\* the longest run of passes whose depths are tabulated
MaxTurns == 16

\* the values z takes in "while z > floor: ...; z = z + step", from z0 on
RECURSIVE DepthsFrom(_, _, _, _)
DepthsFrom(z0, floor, step, n) ==
    IF n = 0 \/ ~FGt(z0, floor) THEN {z0}
    ELSE {z0} \cup DepthsFrom(FAdd(z0, step), floor, step, n - 1)

\* the values of z in a run with the arguments a: the perimeter loop starts
\* at 0, every corner loop at args.tab_depth
LoopDepths(a) ==
    LET p == parse_args(a)
    IN  DepthsFrom(FZero, p.tab_depth, p.z_cut, MaxTurns)
            \cup DepthsFrom(p.tab_depth, p.depth, p.z_cut, MaxTurns)

\* z + args.z_cut, tabulated over the depths of each run
NextDepth ==
    [a \in LoopArgvs |-> [d \in LoopDepths(a) |-> FAdd(d, parse_args(a).z_cut)]]

InitLoops ==
    /\ pc = "check_z_cut"
    /\ argv \in LoopArgvs
    /\ args = parse_args(argv)
    /\ infile = <<>>
    /\ ring_start = 1
    /\ geometry_block = <<>>
    /\ outline = <<>>
    /\ board = <<>>
    /\ cutout = <<>>
    /\ opened = FALSE
    /\ out = <<>>
    /\ z = FZero
    /\ corner = 0
    /\ direction = FirstDirection
    /\ corner_poly = <<>>
    /\ exit = ""
    /\ AuxIdle

\* main from read_gcode_geometry to write_gcode's "z = 0"
Prepare ==
    /\ pc = "read"
    /\ opened' = TRUE
    /\ z' = FZero
    /\ pc' = "perimeter"
    /\ UNCHANGED <<argv, args, infile, geometry_block, outline, board, cutout, out,
                   corner, direction, corner_poly, exit, ring_start>>
    /\ UNCHANGED aux

\* while z > args.tab_depth: one perimeter pass
PerimeterTurn ==
    /\ pc = "perimeter"
    /\ FGt(z, args.tab_depth)
    /\ z' = NextDepth[argv][z]
    /\ turns' = 1 - turns
    /\ UNCHANGED <<pc, argv, args, infile, geometry_block, outline, board, cutout,
                   opened, out, corner, direction, corner_poly, exit, ring_start>>
    /\ UNCHANGED <<rerun, sys_argv, cmdline_str, rectangles, sorted_rectangles,
                   heap, returned, config, squares, sweep, path_data, cur_rect>>

\* a corner block begins: direction = 1, z = args.tab_depth
CornerEnter ==
    /\ pc = "corner"
    /\ corner < 4
    /\ direction' = FirstDirection
    /\ z' = args.tab_depth
    /\ pc' = "corner_pass"
    /\ UNCHANGED <<argv, args, infile, geometry_block, outline, board, cutout,
                   opened, out, corner, corner_poly, exit, ring_start>>
    /\ UNCHANGED aux

\* while z > args.depth: one pass over the corner
CornerTurn ==
    /\ pc = "corner_pass"
    /\ FGt(z, args.depth)
    /\ direction' = Flip(direction)
    /\ z' = NextDepth[argv][z]
    /\ turns' = 1 - turns
    /\ UNCHANGED <<pc, argv, args, infile, geometry_block, outline, board, cutout,
                   opened, out, corner, corner_poly, exit, ring_start>>
    /\ UNCHANGED <<rerun, sys_argv, cmdline_str, rectangles, sorted_rectangles,
                   heap, returned, config, squares, sweep, path_data, cur_rect>>

\* the shutdown instructions are written, the file is closed and the script
\* ends
Close ==
    /\ pc = "corner"
    /\ corner = 4
    /\ opened' = FALSE
    /\ pc' = "exit"
    /\ exit' = "ok"
    /\ UNCHANGED <<argv, args, infile, geometry_block, outline, board, cutout, out,
                   z, corner, direction, corner_poly, ring_start>>
    /\ UNCHANGED aux

NextLoops ==
    \/ CheckZCut
    \/ Prepare
    \/ PerimeterTurn
    \/ PerimeterEnd
    \/ CornerEnter
    \/ CornerTurn
    \/ CornerEnd
    \/ Close

SpecLoops == InitLoops /\ [][NextLoops]_vars /\ WF_vars(NextLoops)

\* the script has written its shutdown instructions and ended
ShutdownWritten == pc = "exit" /\ exit = "ok" /\ ~opened

\* C27: when z_cut passes the validation at start-up, the perimeter loop and
\* the four corner loops end and the shutdown instructions are eventually
\* written, whatever tab_depth and depth.
C27_Termination == (~ZCutRejected(args)) => <>ShutdownWritten

\* the same for the steps below zero alone
TerminationBelowZero == (argv.z_cut < 0) => <>ShutdownWritten

(***************************************************************************)
(* Purity of BoardGeometry's methods.  Python lists are objects with an    *)
(* identity: heap[id] is the content of the list id, and a BoardGeometry   *)
(* holds the id of its outline.  heap[1] is the outline of the source      *)
(* BoardGeometry; returned records every call: its method, the list it was *)
(* called on (self), and the list it returned (id), which for offset and   *)
(* get_cutout is the outline of the BoardGeometry returned.  The caller    *)
(* may then call methods on a returned BoardGeometry, and may reverse a    *)
(* returned list in place.                                                 *)
(***************************************************************************)
\* the lists in existence, the source's outline included
MaxLists == 3

\* no new object: the list the source holds
list_same(h) == 1

\* list(...), a + b, []: a list object that did not exist before
list_new(h) == Len(h) + 1

\* the heap after the list id has been given the content v
Store(h, id, v) == IF id \in DOMAIN h THEN [h EXCEPT ![id] = v] ELSE Append(h, v)

\* the lists that are outlines of a BoardGeometry
Geometries == {1} \cup {returned[i].id : i \in {j \in DOMAIN returned : returned[j].op # "extract_corner"}}

\* the lists that calls have returned
Results == {returned[i].id : i \in DOMAIN returned}

\* a rectangle astride the origin and a diamond
PurityOutlines ==
    { LinePoints(RectLoop(-30, -10, 80, 40)),
      <<<<0, -20>>, <<-20, 0>>, <<0, 20>>, <<20, 0>>, <<0, -20>>>> }

PurityArgvs ==
    { [z_cut |-> -6, tab_depth |-> -36, depth |-> -66, pass_z |-> 50,
       safe_z |-> 500, tab_size |-> 20, tl_tool_dia |-> 20, tool_dia |-> 20,
       margin |-> 0] }

InitPurity ==
    /\ pc = "calls"
    /\ outline \in PurityOutlines
    /\ heap = <<outline>>
    /\ returned = <<>>
    /\ argv \in PurityArgvs
    /\ args = parse_args(argv)
    /\ ring_start = 1
    /\ infile = <<>>
    /\ geometry_block = <<>>
    /\ board = <<>>
    /\ cutout = <<>>
    /\ opened = FALSE
    /\ out = <<>>
    /\ z = FZero
    /\ corner = 0
    /\ direction = FirstDirection
    /\ corner_poly = <<>>
    /\ exit = ""
    /\ rerun = <<>>
    /\ sys_argv = <<>>
    /\ cmdline_str = <<>>
    /\ rectangles = <<>>
    /\ sorted_rectangles = <<>>
    /\ config = <<>>
    /\ squares = <<>>
    /\ sweep = <<>>
    /\ path_data = <<>>
    /\ cur_rect = <<>>
    /\ turns = 0

PurityFrame ==
    UNCHANGED <<pc, argv, args, infile, geometry_block, outline, board, cutout,
                opened, out, z, corner, direction, corner_poly, exit, ring_start,
                rerun, sys_argv, cmdline_str, rectangles, sorted_rectangles,
                config, squares, sweep, path_data, cur_rect, turns>>

\* the call "op" on the BoardGeometry whose outline is the list self returns
\* the content v in a list of its own
Return(op, self, c, v) ==
    LET id == list_new(heap)
    IN  /\ heap' = Store(heap, id, v)
        /\ returned' = Append(returned, [op |-> op, self |-> self, corner |-> c, id |-> id])

\* g.offset(args.tl_tool_dia / 2)
CallOffset ==
    /\ pc = "calls"
    /\ Len(heap) < MaxLists
    /\ \E self \in Geometries :
           Return("offset", self, 0, offset(heap[self], argv.tl_tool_dia \div 2, ring_start))
    /\ PurityFrame

\* g.get_cutout(args.tool_dia, args.margin)
CallGetCutout ==
    /\ pc = "calls"
    /\ Len(heap) < MaxLists
    /\ \E self \in Geometries :
           Return("get_cutout", self, 0,
                  get_cutout(heap[self], argv.tool_dia, argv.margin, ring_start))
    /\ PurityFrame

\* g.extract_corner(c, args.tab_size)
CallExtractCorner ==
    /\ pc = "calls"
    /\ Len(heap) < MaxLists
    /\ \E self \in Geometries : \E c \in 0..3 :
           Return("extract_corner", self, c, extract_corner(heap[self], c, argv.tab_size))
    /\ PurityFrame

\* the caller reverses a returned list in place: result.reverse()
ReverseResult ==
    /\ pc = "calls"
    /\ \E id \in Results : heap' = [heap EXCEPT ![id] = Reverse(heap[id])]
    /\ PurityFrame
    /\ UNCHANGED returned

NextPurity ==
    \/ CallOffset
    \/ CallGetCutout
    \/ CallExtractCorner
    \/ ReverseResult

SpecPurity == InitPurity /\ [][NextPurity]_vars

\* C21: the outline of the source keeps its points and their order whatever
\* is called and whatever is then done to the results; every result is a
\* list of its own, neither the list it was called on nor one returned
\* before; and a call leaves every list in existence as it is, the list it
\* was called on and the corners extracted earlier included.
C21_Purity ==
    /\ [](/\ heap # <<>> => heap[1] = outline
          /\ \A i \in DOMAIN returned :
                 /\ returned[i].id # returned[i].self
                 /\ returned[i].id # 1
                 /\ \A j \in DOMAIN returned : i # j => returned[i].id # returned[j].id)
    /\ [][returned' # returned => \A id \in DOMAIN heap : heap'[id] = heap[id]]_vars

\* two corners have been extracted from an offset outline, one of them has
\* been changed in place
C21_Witness ==
    \E i, j \in DOMAIN returned :
        /\ i < j
        /\ returned[i].op = "extract_corner"
        /\ returned[j].op = "extract_corner"
        /\ returned[i].corner # returned[j].corner
        /\ returned[i].self = returned[j].self
        /\ heap[returned[i].id] # extract_corner(heap[returned[i].self], returned[i].corner, argv.tab_size)
        /\ heap[returned[j].id] = extract_corner(heap[returned[j].self], returned[j].corner, argv.tab_size)

(***************************************************************************)
(* test_pattern.py: the calibration grid.  config is the Config object,    *)
(* sweep holds the locals of the main block (x, y, the four parameters and *)
(* the two loop counters), squares is the list the loops build.  Depths,   *)
(* speeds and sizes are exact multiples of a unit, written as integers.    *)
(***************************************************************************)
\* the largest number of grid steps on an axis
MaxSteps == 2

ParamNames == <<"z_cut", "xy_speed", "spindle", "fill_step">>

\* the dictionaries of generate_sweep_string
ParamStart(mode) ==
    CASE mode = 1 -> config.z_cut_start
      [] mode = 2 -> config.xy_speed_start
      [] mode = 3 -> config.spindle_start
      [] mode = 4 -> config.fill_step_start

ParamStep(mode) ==
    CASE mode = 1 -> config.z_cut_step
      [] mode = 2 -> config.xy_speed_step
      [] mode = 3 -> config.spindle_step
      [] mode = 4 -> config.fill_step_step

\* generate_sweep_string's list of values: [start + i * step for i in range(steps)]
generate_sweep_string(mode, steps) ==
    IF mode = 0 THEN <<>>
    ELSE [i \in 1..steps |-> ParamStart(mode) + ((i - 1) * ParamStep(mode))]

GridConfigs ==
    { [z_cut_start |-> -1, z_cut_step |-> -2, xy_speed_start |-> 40, xy_speed_step |-> 5,
       spindle_start |-> 10000, spindle_step |-> 1000, fill_step_start |-> 4,
       fill_step_step |-> 1, x_mode |-> xm, x_steps |-> nx, y_mode |-> ym, y_steps |-> ny,
       square_size |-> 50, gap_size |-> 50, quadrant |-> q, x_start |-> -150, y_start |-> 0] :
      xm \in 0..4, ym \in 0..4, nx \in 0..MaxSteps, ny \in 0..MaxSteps, q \in {2, 3} }

\* squares = [] ... the start of "for y_step in range(config.y_steps)"
InitGrid ==
    /\ pc = "row"
    /\ config \in GridConfigs
    /\ squares = <<>>
    /\ sweep = [x |-> 0,
                y |-> IF config.quadrant \in {3, 4}
                      THEN config.y_start - (config.y_steps * config.square_size)
                               - ((config.y_steps - 1) * config.gap_size)
                      ELSE config.y_start,
                z_cut |-> config.z_cut_start, xy_speed |-> config.xy_speed_start,
                spindle |-> config.spindle_start, fill_step |-> config.fill_step_start,
                x_step |-> 0, y_step |-> 0]
    /\ ScriptIdle
    /\ sys_argv = <<>>
    /\ cmdline_str = <<>>
    /\ rectangles = <<>>
    /\ sorted_rectangles = <<>>
    /\ heap = <<>>
    /\ returned = <<>>
    /\ path_data = <<>>
    /\ cur_rect = <<>>
    /\ turns = 0

GridFrame ==
    UNCHANGED <<argv, args, infile, geometry_block, outline, board, cutout,
                opened, out, z, corner, direction, corner_poly, exit, ring_start,
                rerun, sys_argv, cmdline_str, rectangles, sorted_rectangles,
                heap, returned, config, path_data, cur_rect, turns>>

\* the locals s with the parameter selected by mode set back to its start
ResetParam(s, mode) ==
    IF mode = 0 THEN s ELSE [s EXCEPT ![ParamNames[mode]] = ParamStart(mode)]

\* the locals s with the parameter selected by mode advanced by its step
StepParam(s, mode) ==
    IF mode = 0 THEN s ELSE [s EXCEPT ![ParamNames[mode]] = @ + ParamStep(mode)]

\* a row begins: x at the row's start, the X parameter back at its start
RowBegin ==
    /\ pc = "row"
    /\ sweep.y_step < config.y_steps
    /\ sweep' = [ResetParam(sweep, config.x_mode) EXCEPT
                    !.x = IF config.quadrant \in {2, 3}
                          THEN config.x_start - (config.x_steps * config.square_size)
                                   - ((config.x_steps - 1) * config.gap_size)
                          ELSE config.x_start,
                    !.x_step = 0]
    /\ pc' = "square"
    /\ UNCHANGED squares
    /\ GridFrame

\* one square of the row: appended, then x and the X parameter advance
AppendSquare ==
    /\ pc = "square"
    /\ sweep.x_step < config.x_steps
    /\ squares' = Append(squares, <<sweep.x, sweep.y, sweep.z_cut, sweep.xy_speed,
                                    sweep.spindle, sweep.fill_step>>)
    /\ sweep' = [StepParam(sweep, config.x_mode) EXCEPT
                    !.x = @ + config.square_size + config.gap_size,
                    !.x_step = @ + 1]
    /\ UNCHANGED pc
    /\ GridFrame

\* the row ends: y and the Y parameter advance
RowEnd ==
    /\ pc = "square"
    /\ sweep.x_step = config.x_steps
    /\ sweep' = [StepParam(sweep, config.y_mode) EXCEPT
                    !.y = @ + config.square_size + config.gap_size,
                    !.y_step = @ + 1]
    /\ pc' = "row"
    /\ UNCHANGED squares
    /\ GridFrame

\* the grid is complete and handed to write_squares
GridDone ==
    /\ pc = "row"
    /\ sweep.y_step = config.y_steps
    /\ pc' = "write_squares"
    /\ UNCHANGED <<squares, sweep>>
    /\ GridFrame

NextGrid ==
    \/ RowBegin
    \/ AppendSquare
    \/ RowEnd
    \/ GridDone

SpecGrid == InitGrid /\ [][NextGrid]_vars

\* the parameter of a square that a mode selects
ParamOf(square, mode) == square[mode + 2]

\* the square of column i and row j (both from 0) carries the values of the
\* two sweep lists, and its other parameters their start values
SquareAsListed(i, j) ==
    LET square == squares[(j * config.x_steps) + i + 1]
    IN  /\ config.x_mode # 0 =>
               ParamOf(square, config.x_mode)
                   = generate_sweep_string(config.x_mode, config.x_steps)[i + 1]
        /\ config.y_mode # 0 =>
               ParamOf(square, config.y_mode)
                   = generate_sweep_string(config.y_mode, config.y_steps)[j + 1]
        /\ \A mode \in 1..4 :
               mode \notin {config.x_mode, config.y_mode} =>
                   ParamOf(square, mode) = ParamStart(mode)

GridAsListed ==
    /\ Len(squares) = config.x_steps * config.y_steps
    /\ \A i \in 0..(config.x_steps - 1) : \A j \in 0..(config.y_steps - 1) :
           SquareAsListed(i, j)

\* C22: the grid handed to write_squares has x_steps * y_steps squares, row
\* by row, and the square of column i and row j carries the i-th value of
\* the X sweep list and the j-th value of the Y sweep list, for every x_mode
\* and y_mode in 0..4, equal modes included; the other parameters are at
\* their start values.
C22_GridSweep == pc = "write_squares" => GridAsListed

\* the same for two different modes alone
GridSweepOfDistinctModes ==
    (pc = "write_squares" /\ config.x_mode # config.y_mode) => GridAsListed

\* a grid of two rows and two columns swept over two different parameters
GridOfDistinctModesDone ==
    /\ pc = "write_squares"
    /\ config.x_mode \notin {0, config.y_mode}
    /\ config.y_mode # 0
    /\ Len(squares) >= 4

(***************************************************************************)
(* svg_cutout.py: generate_rectangular_spiral.  Coordinates are integers   *)
(* in grid steps; config holds tool_dia and overlap (a fraction, as        *)
(* <<numerator, denominator>>), cur_rect the rectangle <<x, y, w, h>>      *)
(* being filled, sweep the function's locals, and path_data the points of  *)
(* the path in the order they are appended.                                *)
(***************************************************************************)
\* rectangles below, astride and above the origin in y, left of and at it in
\* x; narrower than the tool, narrower than the tool and two steps, and wide
SpiralRects ==
    { <<x, y, w, h>> : x \in {-20, 0}, y \in {-40, -6, 0, 40}, w \in {2, 6, 12, 20},
                       h \in {6, 12, 20} }

SpiralConfigs == { [tool_dia |-> 4, overlap |-> o] : o \in { <<0, 1>>, <<1, 2>> } }

\* step_size = config.tool_dia * (1 - config.overlap)
step_size == (config.tool_dia * (config.overlap[2] - config.overlap[1])) \div config.overlap[2]

\* the arguments write_gcode_fills passes for the rectangle rect
x_min == cur_rect[1]
y_min == cur_rect[2]
x_max == cur_rect[1] + cur_rect[3]
y_max == cur_rect[2] + cur_rect[4]

\* "y_mid = y_max - y_min": the rectangle's height
y_mid == y_max - y_min

InitSpiral ==
    /\ pc = "spiral"
    /\ config \in SpiralConfigs
    /\ cur_rect \in SpiralRects
    /\ sweep = <<>>
    /\ path_data = <<>>
    /\ ScriptIdle
    /\ sys_argv = <<>>
    /\ cmdline_str = <<>>
    /\ rectangles = <<>>
    /\ sorted_rectangles = <<>>
    /\ heap = <<>>
    /\ returned = <<>>
    /\ squares = <<>>
    /\ turns = 0

SpiralFrame ==
    UNCHANGED <<argv, args, infile, geometry_block, outline, board, cutout,
                opened, out, z, corner, direction, corner_poly, exit, ring_start,
                rerun, sys_argv, cmdline_str, rectangles, sorted_rectangles,
                heap, returned, config, squares, cur_rect, turns>>

\* from "path_data = []" to the jog that precedes the loop: the start point,
\* the first loop around the inset rectangle, the bounds moved inward
FirstLoop ==
    /\ pc = "spiral"
    /\ LET x_left == x_min + (config.tool_dia \div 2)
           y_bottom == y_min + (config.tool_dia \div 2)
           x_right == x_max - (config.tool_dia \div 2)
           y_top == y_max - (config.tool_dia \div 2)
       IN  /\ sweep' = [x_left |-> x_left + step_size, x_right |-> x_right - step_size,
                        y_bottom |-> y_bottom + step_size, y_top |-> y_top - step_size]
           /\ path_data' = << <<x_left, y_bottom>>, <<x_right, y_bottom>>, <<x_right, y_top>>,
                              <<x_left, y_top>>, <<x_left, y_bottom>>,
                              <<x_left + step_size, y_bottom + step_size>> >>
    /\ pc' = "loop"
    /\ SpiralFrame

\* the fill is finished when less than a step is left between the bounds
Finished(s) == (s.x_right - s.x_left) < step_size \/ (s.y_top - s.y_bottom) < step_size

\* while True: bottom edge, right edge, and the first break
BottomRight ==
    /\ pc = "loop"
    /\ path_data' = path_data \o << <<sweep.x_right, sweep.y_bottom>>,
                                    <<sweep.x_right, sweep.y_top>> >>
    /\ pc' = IF Finished(sweep) THEN "return" ELSE "top_left"
    /\ UNCHANGED sweep
    /\ SpiralFrame

\* top edge, left edge, the second break, and the move inward
TopLeft ==
    /\ pc = "top_left"
    /\ LET bottom == sweep.y_bottom
                         + (IF sweep.y_bottom < (y_mid - step_size) THEN step_size ELSE 0)
       IN  /\ path_data' = path_data \o << <<sweep.x_left, sweep.y_top>>,
                                           <<sweep.x_left, bottom>> >>
           /\ IF (sweep.y_top - bottom) < step_size
              THEN /\ sweep' = [sweep EXCEPT !.y_bottom = bottom]
                   /\ pc' = "return"
              ELSE /\ sweep' = [x_left |-> sweep.x_left + step_size,
                                x_right |-> sweep.x_right - step_size,
                                y_bottom |-> bottom,
                                y_top |-> sweep.y_top - step_size]
                   /\ pc' = "loop"
    /\ SpiralFrame

NextSpiral ==
    \/ FirstLoop
    \/ BottomRight
    \/ TopLeft

SpecSpiral == InitSpiral /\ [][NextSpiral]_vars

\* the point p lies in the rectangle drawn in by the tool's radius
InInset(p) ==
    /\ x_min + (config.tool_dia \div 2) <= p[1]
    /\ p[1] <= x_max - (config.tool_dia \div 2)
    /\ y_min + (config.tool_dia \div 2) <= p[2]
    /\ p[2] <= y_max - (config.tool_dia \div 2)

\* the bounds s moved inward by one step on all four sides
Inward(s) ==
    [x_left |-> s.x_left + step_size, x_right |-> s.x_right - step_size,
     y_bottom |-> s.y_bottom + step_size, y_top |-> s.y_top - step_size]

\* C23: every point of the path lies within the rectangle drawn in by the
\* tool's radius, whatever the rectangle's width; and each loop that is
\* followed by another has moved all four bounds inward by step_size,
\* wherever the rectangle lies.
C23_SpiralInward ==
    /\ [](\A i \in DOMAIN path_data : InInset(path_data[i]))
    /\ [][(pc = "loop" /\ pc' = "top_left") => sweep' = sweep]_vars
    /\ [][(pc = "top_left" /\ pc' = "loop") => sweep' = Inward(sweep)]_vars

\* the points stay in the inset when the rectangle is at least as wide and
\* as high as the tool and two steps
InsetOfWideRectangles ==
    (/\ cur_rect[3] >= config.tool_dia + (2 * step_size)
     /\ cur_rect[4] >= config.tool_dia + (2 * step_size))
        => \A i \in DOMAIN path_data : InInset(path_data[i])

\* the loops move inward on all four sides when the rectangle does not
\* reach above y = 0
InwardAtOrBelowOrigin ==
    [][(y_max <= y_mid /\ pc = "top_left" /\ pc' = "loop") => sweep' = Inward(sweep)]_vars

=============================================================================
